---- MODULE Spec2Model ----
(***************************************************************************)
(* gragraf: the graph compiler (src/gragraf/compiler.py), the node steps   *)
(* (src/gragraf/nodes/*.py) and the streaming endpoint                     *)
(* (src/gragraf/server.py) as a state machine.                             *)
(*                                                                         *)
(* Node ids are modelled as naturals; the order of the naturals stands for *)
(* the lexicographic order of the id strings (list.sort() on str).         *)
(***************************************************************************)
EXTENDS Integers, Sequences, FiniteSets, TLC

\* ---------------------------------------------------------------- bounds
\* Largest number of nodes / edges of a DSL handed to the compiler alone.
MaxNodes == 3
MaxEdges == 3

\* ------------------------------------------------------------ node types
\* schemas/graph.py NodeType.  HUMAN_IN_LOOP is referenced by compiler.py
\* (lines 86, 209, 229, 256, 259) and by the tests but has no declaration
\* in schemas/graph.py; it is taken from the data model of the
\* specification (Node.type includes HumanApproval).
START == "start"
END == "end"
AGENT == "agent"
BRANCH == "branch"
HUMAN_IN_LOOP == "human_in_loop"

NodeTypes == {START, END, AGENT, HUMAN_IN_LOOP}

\* Edge.source_handle = None
NoHandle == "none"

\* ------------------------------------------------------------- variables
VARIABLES
    dslNodes,   \* request.dsl.nodes: sequence of [id, type]
    dslEdges,   \* request.dsl.edges: sequence of [source, target, source_handle]
    pc,         \* position of the caller
    topo,       \* result of the last _topological_sort call
    prevTopo,   \* result of the call before it
    comp,       \* result of the last compile() call
    phase,      \* of the current stream: "idle", "running", "done"
    call,       \* the current stream call: thread id, input, consumer
    run,        \* the engine's channels and tasks for the current stream
    events,     \* what the consumer of the current stream has received
    outcome,    \* how the current stream ended
    store,      \* compiler.checkpointer: thread id -> last checkpoint
    loaded,     \* whether the current stream found a checkpoint for its thread
    execCount,  \* per thread and node: executions over all streams so far
    calls,      \* number of streams started
    suspended,  \* per thread: the node at which its last stream was abandoned
    awaiting,   \* per thread: the node that last asked for human input
    arg,        \* the arguments of a direct call of a function
    ret,        \* what that call returned or raised
    db,         \* table "workflows": workflow id -> committed row
    reqs,       \* per unit of work (one per API request): its session and position
    log         \* the last request that returned, and counts of requests

compilerVars == <<pc, topo, prevTopo>>

runVars == <<phase, call, run, events, outcome, store, loaded, execCount, calls,
             suspended, awaiting>>

mgmtVars == <<db, reqs, log>>

callVars == <<arg, ret, db, reqs, log>>

vars == <<dslNodes, dslEdges, pc, topo, prevTopo, comp, phase, call, run, events,
          outcome, store, loaded, execCount, calls, suspended, awaiting, arg, ret,
          db, reqs, log>>

\* ------------------------------------------------------- GraphCompiler
\* self.nodes = {node.id: node for node in parsed_graph.nodes} (keys, in order)
node_ids(nodes) == [i \in DOMAIN nodes |-> nodes[i].id]

NodeIdSet(nodes) == {nodes[i].id : i \in DOMAIN nodes}

node_type(nodes, n) == nodes[CHOOSE i \in DOMAIN nodes : nodes[i].id = n].type

IsType(nd, t) == nd.type = t

\* _get_start_node / _get_end_node: the list of ids of that type
start_nodes(nodes) == SelectSeq(nodes, LAMBDA nd : IsType(nd, START))

end_nodes(nodes) == SelectSeq(nodes, LAMBDA nd : IsType(nd, END))

\* queue.sort(): insertion into an ascending list
RECURSIVE sorted_insert(_, _)
sorted_insert(x, s) ==
    IF s = <<>> THEN <<x>>
    ELSE IF x <= Head(s) THEN <<x>> \o s
    ELSE <<Head(s)>> \o sorted_insert(x, Tail(s))

RECURSIVE queue_sort_plain(_)
queue_sort_plain(q) ==
    IF q = <<>> THEN <<>> ELSE sorted_insert(Head(q), queue_sort_plain(Tail(q)))

\* mutant of queue_sort: the sort is dropped, the queue is served in arrival order
queue_sort_unsorted(q) == q

queue_sort(q) == queue_sort_plain(q)

\* mutant of in_degree_init: a target is counted once however many edges enter it
in_degree_init_once(nodes, edges) ==
    [n \in NodeIdSet(nodes) |->
        IF \E i \in DOMAIN edges : edges[i].target = n THEN 1 ELSE 0]

\* in_degree = {node_id: 0}; for edge in edges: in_degree[edge.target] += 1
in_degree_init(nodes, edges) ==
    [n \in NodeIdSet(nodes) |->
        Cardinality({i \in DOMAIN edges : edges[i].target = n})]

\* for edge in edges: if edge.source == node: decrement, append when it hits 0
RECURSIVE relax_edges(_, _, _, _, _)
relax_edges(edges, i, node, in_degree, queue) ==
    IF i > Len(edges) THEN [in_degree |-> in_degree, queue |-> queue]
    ELSE IF edges[i].source = node
    THEN LET t == edges[i].target
             d == [in_degree EXCEPT ![t] = @ - 1]
         IN relax_edges(edges, i + 1, node, d,
                        IF d[t] = 0 THEN Append(queue, t) ELSE queue)
    ELSE relax_edges(edges, i + 1, node, in_degree, queue)

\* while queue: queue.sort(); node = queue.pop(0); result.append(node); ...
RECURSIVE kahn_loop(_, _, _, _)
kahn_loop(edges, in_degree, queue, result) ==
    IF queue = <<>> THEN result
    ELSE LET q == queue_sort(queue)
             node == Head(q)
             r == relax_edges(edges, 1, node, in_degree, Tail(q))
         IN kahn_loop(edges, r.in_degree, r.queue, Append(result, node))

SeqToSet(s) == {s[i] : i \in DOMAIN s}

\* mutant of remaining_nodes: the emitted nodes are not filtered out
remaining_nodes_all(nodes, result) == node_ids(nodes)

\* remaining_nodes = [node_id for node_id in self.nodes if node_id not in result]
remaining_nodes(nodes, result) ==
    SelectSeq(node_ids(nodes), LAMBDA n : n \notin SeqToSet(result))

NoTopo == [status |-> "none", order |-> <<>>, remaining |-> <<>>]

\* GraphCompiler._topological_sort
topological_sort(nodes, edges) ==
    IF \E i \in DOMAIN edges : edges[i].target \notin NodeIdSet(nodes)
    THEN [status |-> "key_error", order |-> <<>>, remaining |-> <<>>]
    ELSE LET deg == in_degree_init(nodes, edges)
             queue == SelectSeq(node_ids(nodes), LAMBDA n : deg[n] = 0)
             result == kahn_loop(edges, deg, queue, <<>>)
         IN IF Len(result) # Len(nodes)
            THEN [status |-> "cycle", order |-> result,
                  remaining |-> remaining_nodes(nodes, result)]
            ELSE [status |-> "ok", order |-> result, remaining |-> <<>>]

\* ---------------------------------------------- _validate_graph_structure
ValidationOk == [status |-> "ok", node |-> 0]

\* for node_id, node_config in self.nodes.items(): the first offending node
\* mutant of orphan_scan: a node with outgoing edges needs no incoming edge
RECURSIVE orphan_scan_inbound_unchecked(_, _, _)
orphan_scan_inbound_unchecked(nodes, edges, i) ==
    IF i > Len(nodes) THEN ValidationOk
    ELSE LET n == nodes[i].id
             has_incoming == \E e \in DOMAIN edges : edges[e].target = n
             has_outgoing == \E e \in DOMAIN edges : edges[e].source = n
         IN IF nodes[i].type \in {START, END}
            THEN orphan_scan_inbound_unchecked(nodes, edges, i + 1)
            ELSE IF ~has_incoming /\ ~has_outgoing
            THEN [status |-> "orphaned", node |-> n]
            ELSE IF ~has_outgoing /\ nodes[i].type # END
            THEN [status |-> "no_outgoing", node |-> n]
            ELSE orphan_scan_inbound_unchecked(nodes, edges, i + 1)

RECURSIVE orphan_scan(_, _, _)
orphan_scan(nodes, edges, i) ==
    IF i > Len(nodes) THEN ValidationOk
    ELSE LET n == nodes[i].id
             has_incoming == \E e \in DOMAIN edges : edges[e].target = n
             has_outgoing == \E e \in DOMAIN edges : edges[e].source = n
         IN IF nodes[i].type \in {START, END}
            THEN orphan_scan(nodes, edges, i + 1)
            ELSE IF ~has_incoming /\ ~has_outgoing
            THEN [status |-> "orphaned", node |-> n]
            ELSE IF ~has_incoming
            THEN [status |-> "no_incoming", node |-> n]
            ELSE IF ~has_outgoing /\ nodes[i].type # END
            THEN [status |-> "no_outgoing", node |-> n]
            ELSE orphan_scan(nodes, edges, i + 1)

\* mutant of validate_graph_structure: the start/end counts are not checked
validate_graph_structure_nocount(nodes, edges) == orphan_scan(nodes, edges, 1)

validate_graph_structure(nodes, edges) ==
    IF Len(start_nodes(nodes)) # 1 THEN [status |-> "start_count", node |-> 0]
    ELSE IF Len(end_nodes(nodes)) # 1 THEN [status |-> "end_count", node |-> 0]
    ELSE orphan_scan(nodes, edges, 1)

\* ------------------------------------------------------------- compile()
IsConditional(nodes, n) == node_type(nodes, n) \in {BRANCH, HUMAN_IN_LOOP}

\* edges_by_target[target] = [sources of the edges whose source is not conditional]
edges_by_target(nodes, edges, t) ==
    LET idx == SelectSeq([i \in DOMAIN edges |-> i],
                   LAMBDA i : edges[i].target = t /\ ~IsConditional(nodes, edges[i].source))
    IN [k \in DOMAIN idx |-> edges[idx[k]].source]

static_targets(nodes, edges) ==
    {edges[i].target : i \in {j \in DOMAIN edges : ~IsConditional(nodes, edges[j].source)}}

\* workflow.add_edge(sources[0], target) for a target with one listed source
direct_edges(nodes, edges) ==
    {<<edges_by_target(nodes, edges, t)[1], t>> :
        t \in {u \in static_targets(nodes, edges) : Len(edges_by_target(nodes, edges, u)) = 1}}

\* workflow.add_edge(sources, target) for a target with several listed sources
join_edges(nodes, edges) ==
    [t \in {u \in static_targets(nodes, edges) : Len(edges_by_target(nodes, edges, u)) > 1}
        |-> SeqToSet(edges_by_target(nodes, edges, t))]

handle_key(h) == IF h = NoHandle THEN "default" ELSE h

\* mutant of path_map: the edge listed first keeps its handle
path_map_first_wins(edges, n) ==
    LET out == {i \in DOMAIN edges : edges[i].source = n}
        keys == {handle_key(edges[i].source_handle) : i \in out}
        first(k) == CHOOSE i \in out :
                       /\ handle_key(edges[i].source_handle) = k
                       /\ \A j \in out : handle_key(edges[j].source_handle) = k => i <= j
    IN [k \in keys |-> edges[first(k)].target]

\* path_map = {edge.source_handle or "default": edge.target for edge in ...}:
\* a later edge with the same handle replaces the earlier one
path_map(edges, n) ==
    LET out == {i \in DOMAIN edges : edges[i].source = n}
        keys == {handle_key(edges[i].source_handle) : i \in out}
        last(k) == CHOOSE i \in out :
                      /\ handle_key(edges[i].source_handle) = k
                      /\ \A j \in out : handle_key(edges[j].source_handle) = k => j <= i
    IN [k \in keys |-> edges[last(k)].target]

conditional_nodes(nodes) == {n \in NodeIdSet(nodes) : IsConditional(nodes, n)}

\* nodes wired to LangGraph's END: the end node, and every leaf that is
\* neither start, end nor conditional
end_wired(nodes, edges) ==
    {end_nodes(nodes)[1].id} \cup
    {n \in NodeIdSet(nodes) :
        /\ node_type(nodes, n) \notin {START, END, BRANCH, HUMAN_IN_LOOP}
        /\ ~\E i \in DOMAIN edges : edges[i].source = n}

NoPlan == [entry |-> 0, direct |-> {}, joins |-> <<>>, routes |-> <<>>, to_end |-> {}]

build_plan(nodes, edges) ==
    [entry |-> start_nodes(nodes)[1].id,
     direct |-> direct_edges(nodes, edges),
     joins |-> join_edges(nodes, edges),
     routes |-> [n \in conditional_nodes(nodes) |-> path_map(edges, n)],
     to_end |-> end_wired(nodes, edges)]

NoComp == [status |-> "none", error_node |-> 0, order |-> <<>>, remaining |-> <<>>,
           node_instances |-> {}, plan |-> NoPlan]

\* GraphCompiler.compile
compile(nodes, edges) ==
    LET v == validate_graph_structure(nodes, edges)
        t == topological_sort(nodes, edges)
    IN IF v.status # "ok"
       THEN [NoComp EXCEPT !.status = "structure_error", !.error_node = v.node]
       ELSE IF t.status = "key_error"
       THEN [NoComp EXCEPT !.status = "key_error"]
       ELSE IF t.status = "cycle"
       THEN [NoComp EXCEPT !.status = "cycle_error", !.order = t.order,
                           !.remaining = t.remaining]
       ELSE IF Len(start_nodes(nodes)) # 1 \/ Len(end_nodes(nodes)) # 1
       THEN [NoComp EXCEPT !.status = "structure_error"]
       ELSE [status |-> "ok", error_node |-> 0, order |-> t.order, remaining |-> <<>>,
             node_instances |-> NodeIdSet(nodes),
             plan |-> build_plan(nodes, edges)]

\* ---- workflow.compile(checkpointer=...): the checks of the graph library.
\* Some releases reject a node that is the source of no edge (a dead end) or the
\* target of none (not reachable); others accept both.
plan_sources(plan) ==
    {d[1] : d \in plan.direct}
    \cup UNION {plan.joins[t] : t \in DOMAIN plan.joins}
    \cup DOMAIN plan.routes
    \cup plan.to_end

plan_targets(plan) ==
    {plan.entry}
    \cup {d[2] : d \in plan.direct}
    \cup DOMAIN plan.joins
    \cup UNION {{plan.routes[n][h] : h \in DOMAIN plan.routes[n]} : n \in DOMAIN plan.routes}

\* GraphCompiler.compile up to and including its last statement
workflow_compile(nodes, edges, strict) ==
    LET c == compile(nodes, edges)
    IN IF /\ c.status = "ok"
          /\ strict
          /\ (NodeIdSet(nodes) \ plan_sources(c.plan) # {}
              \/ NodeIdSet(nodes) \ plan_targets(c.plan) # {})
       THEN [NoComp EXCEPT !.status = "library_error"]
       ELSE c

\* =============================================================== the engine
\* ---------------------------------------------------------------- bounds
\* Largest DSL that is run, number of stream calls, number of thread ids.
MaxRunNodes == 4
MaxRunEdges == 5
MaxRequests == 2
MaxThreads == 2
\* Largest number of static nodes a Branch node routes to in the graphs of
\* test_conditional_graph_execution.
MaxTargets == 2

\* the ids of the nodes of the graphs that are run
RunNodeIds ==
    1..(IF MaxRunNodes > MaxTargets + 3 THEN MaxRunNodes ELSE MaxTargets + 3)

Threads == 1..MaxThreads

\* langgraph.constants.INTERRUPT ("__interrupt__"): as the name of a chunk entry
\* it is the one name that is no node id
INTERRUPT == 0

\* ---------------------------------------------------- the workflow state
\* A state key "{node_id}_{field}" is <<node_id, field>>; a key that carries no
\* node id has INTERRUPT in its place.  A value is <<text, node id or 0>>.
Key(n, field) == <<n, field>>

Val(text) == <<text, 0>>

EmptyDict == [k \in {} |-> Val("")]

\* dict.update
dict_update_keeps_old(x, y) ==
    [k \in DOMAIN x \cup DOMAIN y |-> IF k \in DOMAIN x THEN x[k] ELSE y[k]]

dict_update(x, y) ==
    [k \in DOMAIN x \cup DOMAIN y |-> IF k \in DOMAIN y THEN y[k] ELSE x[k]]

\* the shapes of a value handed to the reducer: None, a dict (with its entries
\* and, when it has the "__updates__" entry, the items of that entry) or a
\* value that is no dict
DictUpdate(m) == [kind |-> "dict", map |-> m, items |-> <<>>]

NoneUpdate == [kind |-> "none", map |-> EmptyDict, items |-> <<>>]

\* the key "__updates__", and what its entry can be: a list, a value that is
\* no list and has a length (a str: none of its elements is a dict), a value
\* that has none (None, an int)
MARKER == <<INTERRUPT, "__updates__">>

ListEntry == <<"list", 0>>

SizedEntry == <<"str", 0>>

UnsizedEntry == <<"None", 0>>

BatchUpdate(items) == [kind |-> "dict", map |-> (MARKER :> ListEntry), items |-> items]

\* for update in y["__updates__"]: if isinstance(update, dict): result.update(update)
apply_updates_first_wins(result, items, i) ==
    LET RECURSIVE go(_, _)
        go(r, j) == IF j > Len(items) THEN r
                    ELSE go(IF items[j].kind = "dict"
                            THEN dict_update(items[j].map, r) ELSE r, j + 1)
    IN go(result, i)

RECURSIVE apply_updates(_, _, _)
apply_updates(result, items, i) ==
    IF i > Len(items) THEN result
    ELSE apply_updates(IF items[i].kind = "dict"
                       THEN dict_update(result, items[i].map) ELSE result,
                       items, i + 1)

\* len(y['__updates__']) of the log line
reducer_raises(y) ==
    y.kind = "dict" /\ MARKER \in DOMAIN y.map /\ y.map[MARKER] = UnsizedEntry

\* mutant of state_reducer: the update replaces the state
state_reducer_replaces(x, y) == IF y.kind = "dict" THEN y.map ELSE x

\* compiler.state_reducer, when it returns
state_reducer(x, y) ==
    IF y.kind = "none" THEN x
    ELSE IF y.kind = "dict" /\ MARKER \in DOMAIN y.map THEN apply_updates(x, y.items, 1)
    ELSE IF y.kind = "dict" THEN dict_update(x, y.map)
    ELSE x

\* the objects of a call of state_reducer once it is over: what the dicts
\* passed as x and y hold, and whether the dict returned is another object than
\* x. The mutant works on x itself (result = x).
reducer_objects_in_place(x, y) ==
    [x |-> IF reducer_raises(y) THEN x ELSE state_reducer(x, y), y |-> y,
     result_is_new |-> FALSE]

\* result = dict(x) if x else {}: the entries of x are copied into a new dict,
\* and result.update(...) writes into that dict only
reducer_objects(x, y) == [x |-> x, y |-> y, result_is_new |-> TRUE]

\* ------------------------------------------------------------ node steps
\* StartNode.execute with an empty config
start_execute(n, st) == EmptyDict

\* EndNode.execute with no configured outputs
end_execute(n, st) ==
    (Key(n, "outputs") :> Val("outputs")) @@ (Key(INTERRUPT, "outputs") :> Val("outputs"))

\* AgentNode.execute: the chain returns, or it raises and the node re-raises
AgentOutcomes == {"ok", "fails"}

agent_raises(m) == m = "fails"

agent_execute(n, st) == (Key(n, "output") :> Val("result"))

\* human_input.get("decision", "rejected")
input_decision(human_input) ==
    IF human_input[1] = "nodecision" THEN Val("rejected") ELSE Val(human_input[1])

\* a human input: <<decision, c>>.  c = 0: a mapping without a comment,
\* c = 1: a mapping with a comment, c = 2: the bare string, not a mapping
\* human_input.get raises AttributeError for a value that is no mapping
input_get_raises(human_input) == human_input[2] = 2

\* human_input.get("comment", "")
input_comment(human_input) ==
    IF human_input[2] = 1 THEN Val("comment") ELSE Val("")

\* mutant of hil_execute: the human input is looked at before the decision
hil_execute_input_first(n, st) ==
    IF Key(n, "human_input") \in DOMAIN st
    THEN (Key(n, "decision") :> input_decision(st[Key(n, "human_input")])) @@
         (Key(n, "comment") :> input_comment(st[Key(n, "human_input")])) @@
         (Key(n, "user_input") :> st[Key(n, "human_input")])
    ELSE IF Key(n, "decision") \in DOMAIN st
    THEN (Key(n, "decision") :> st[Key(n, "decision")])
    ELSE (Key(n, "hilp_info") :> Val("human_in_loop_interrupt")) @@
         (Key(INTERRUPT, "__interrupt__") :> <<"human_input_required", n>>)

\* HumanInLoopNode.execute
hil_execute(n, st) ==
    IF Key(n, "decision") \in DOMAIN st
    THEN (Key(n, "decision") :> st[Key(n, "decision")])
    ELSE IF Key(n, "human_input") \in DOMAIN st
    THEN IF input_get_raises(st[Key(n, "human_input")])
         THEN (Key(n, "decision") :> Val("rejected")) @@
              (Key(n, "error") :> Val("AttributeError"))
         ELSE (Key(n, "decision") :> input_decision(st[Key(n, "human_input")])) @@
              (Key(n, "comment") :> input_comment(st[Key(n, "human_input")])) @@
              (Key(n, "user_input") :> st[Key(n, "human_input")])
    ELSE (Key(n, "hilp_info") :> Val("human_in_loop_interrupt")) @@
         (Key(INTERRUPT, "__interrupt__") :> <<"human_input_required", n>>)

\* mutant of hil_get_decision: a state without decision is an error
hil_get_decision_absent_is_error(n, st) ==
    IF Key(n, "decision") \notin DOMAIN st THEN "error_path"
    ELSE IF st[Key(n, "decision")] = Val("approved") THEN "approval"
    ELSE IF st[Key(n, "decision")] = Val("rejected") THEN "rejection"
    ELSE "error_path"

\* mutant of hil_get_decision: approval and rejection are swapped
hil_get_decision_swapped(n, st) ==
    LET decision == IF Key(n, "decision") \in DOMAIN st
                    THEN st[Key(n, "decision")] ELSE Val("rejected")
    IN IF decision = Val("approved") THEN "rejection"
       ELSE IF decision = Val("rejected") THEN "approval"
       ELSE "error_path"

\* HumanInLoopNode.get_decision
hil_get_decision(n, st) ==
    LET decision == IF Key(n, "decision") \in DOMAIN st
                    THEN st[Key(n, "decision")] ELSE Val("rejected")
    IN IF decision = Val("approved") THEN "approval"
       ELSE IF decision = Val("rejected") THEN "rejection"
       ELSE "error_path"

\* What the conditions of a Branch node evaluate to on the state at hand: the
\* index of the first condition that holds, or none
BranchMatches == {"branch-0", "branch-1", "nomatch"}

\* BranchNode.execute: the for ... else clause raises whenever no condition
\* matched, with or without hasElse
branch_raises(m) == m = "nomatch"

branch_execute(n, st, m) == (Key(n, "decision") :> Val(m))

\* BranchNode.get_decision: state.get(f"{id}_decision")
branch_get_decision(n, st) ==
    IF Key(n, "decision") \in DOMAIN st THEN st[Key(n, "decision")][1] ELSE "None"

\* the outcomes a task of the node can have
TaskOutcomes(nodes, n) ==
    IF node_type(nodes, n) = BRANCH THEN BranchMatches
    ELSE IF node_type(nodes, n) = AGENT THEN AgentOutcomes
    ELSE {"ok"}

\* the node function raises
raises(nodes, n, m) ==
    \/ node_type(nodes, n) = BRANCH /\ branch_raises(m)
    \/ node_type(nodes, n) = AGENT /\ agent_raises(m)

\* raise ValueError("Error evaluating conditions.") from e;
\* raise Exception(f"Agent {self.node_id} execution failed: {str(e)}") from e
node_exception(nodes, n, m) ==
    IF node_type(nodes, n) = AGENT
    THEN [type |-> "Exception", node |-> n, text |-> "Agent execution failed"]
    ELSE [type |-> "ValueError", node |-> 0, text |-> "Error evaluating conditions."]

\* path_map[decision] for a decision that is no key of path_map
route_exception(n, decision) == [type |-> "KeyError", node |-> 0, text |-> decision]

\* workflow.add_node(node_id, instance.execute)
execute(nodes, n, st, m) ==
    CASE node_type(nodes, n) = START -> start_execute(n, st)
      [] node_type(nodes, n) = END -> end_execute(n, st)
      [] node_type(nodes, n) = AGENT -> agent_execute(n, st)
      [] node_type(nodes, n) = HUMAN_IN_LOOP -> hil_execute(n, st)
      [] node_type(nodes, n) = BRANCH -> branch_execute(n, st, m)

\* condition_func(state) = inst.get_decision(state)
condition_func(nodes, n, st) ==
    IF node_type(nodes, n) = BRANCH THEN branch_get_decision(n, st)
    ELSE hil_get_decision(n, st)


\* ------------------------------------------------------------ the engine
\* A task that finished in the current step: the state it was handed, what it
\* returned and, for a conditional node, the target its branch wrote to (0: none)
NoTasks == [n \in {} |-> [read |-> EmptyDict, update |-> EmptyDict, goto |-> 0]]

NoSeen == [t \in {} |-> {}]

NoTaken == [n \in {} |-> 0]

\* MemorySaver holds nothing for a thread id it has never seen
NoCheckpoint == [saved |-> FALSE, state |-> EmptyDict, pending |-> {}, seen |-> NoSeen]

\* GraphCompiler.__init__: self.checkpointer = checkpointer or MemorySaver()
MemorySaver == [th \in Threads |-> NoCheckpoint]

NoCall == [thread |-> 0, kind |-> "none", hnode |-> 0, hval |-> "none",
           driver |-> "none", watching |-> FALSE]

\* an exception: its type, the node id its message names (0: none), its message
NoException == [type |-> "none", node |-> 0, text |-> ""]

\* no direct call
NoArg == [of |-> "none"]

NoRet == [raised |-> FALSE]

NoRun == [state |-> EmptyDict, initial |-> EmptyDict, pending |-> {}, finished |-> NoTasks,
          seen |-> NoSeen, taken |-> NoTaken, marker |-> 0, exception |-> NoException]

InitRun ==
    /\ phase = "idle"
    /\ call = NoCall
    /\ run = NoRun
    /\ events = <<>>
    /\ outcome = "none"
    /\ store = MemorySaver
    /\ loaded = FALSE
    /\ execCount = [th \in Threads |-> [n \in RunNodeIds |-> 0]]
    /\ calls = 0
    /\ suspended = [th \in Threads |-> 0]
    /\ awaiting = [th \in Threads |-> 0]

\* ---------------------------------------------- workflow management: data
\* Largest number of workflows (ids) and of API requests over one history,
\* and the number of requests that may be in flight together.
MaxWorkflows == 2
MaxOps == 4
MaxSessions == 2

WorkflowIds == 1..MaxWorkflows
Sessions == 1..MaxSessions

\* WorkflowMetadata.name
Names == {"a", "b"}
\* name=None of update_workflow_metadata
NoName == "none"

\* WorkflowStatus (value_objects.py)
DRAFT == "draft"
ACTIVE == "active"
INACTIVE == "inactive"
ARCHIVED == "archived"

\* a Workflow entity / a WorkflowModel row; id 0: None (no such row).
\* definition stands for the DSL: 1 is the DSL given at creation, each
\* update_definition request of the model hands in the next one.
NoWorkflow == [id |-> 0, name |-> NoName, version |-> 0, status |-> DRAFT,
               definition |-> 0, total |-> 0, successful |-> 0, failed |-> 0]

\* a unit of work that is not open
NoRequest == [pc |-> "idle", op |-> "none", existing |-> NoWorkflow,
              entity |-> NoWorkflow, name |-> NoName, success |-> FALSE]

\* nothing has returned yet; started counts the requests, recorded the
\* record_execution requests committed for a workflow, archived holds the
\* workflows whose archive request was committed
NoLog == [op |-> "none", result |-> "none", before |-> NoWorkflow,
          entity |-> NoWorkflow, name |-> NoName, success |-> FALSE,
          started |-> 0, recorded |-> [w \in WorkflowIds |-> 0],
          archived |-> {}]

\* an empty table, no request in flight
InitMgmt ==
    /\ db = [w \in WorkflowIds |-> NoWorkflow]
    /\ reqs = [s \in Sessions |-> NoRequest]
    /\ log = NoLog

\* no function is called directly
InitCall ==
    /\ arg = NoArg
    /\ ret = NoRet
    /\ InitMgmt

\* mutant of Event: the start event carries no thread id
Event_start_unstamped(type, n, th) ==
    [type |-> type, node |-> n, thread |-> IF type = "start" THEN 0 ELSE th]

\* json.dumps({'type': ..., ..., 'thread_id': thread_id})
Event(type, n, th) == [type |-> type, node |-> n, thread |-> th]

\* the barrier channels add_edge(sources, target) creates, all empty
fresh_barriers(plan) == [t \in DOMAIN plan.joins |-> {}]

\* the writes of a step are applied in the order of the task names
RECURSIVE merge_writes(_, _)
merge_writes(st, finished) ==
    IF DOMAIN finished = {} THEN st
    ELSE LET n == CHOOSE m \in DOMAIN finished : \A k \in DOMAIN finished : m <= k
             rest == [k \in DOMAIN finished \ {n} |-> finished[k]]
         IN merge_writes(state_reducer(st, DictUpdate(finished[n].update)), rest)

\* a barrier collects the names of its sources that have finished
barrier_after(plan, seen, fin, t) == seen[t] \cup (plan.joins[t] \cap fin)

\* mutant of next_tasks: a conditional node schedules the target of every handle
next_tasks_all_handles(plan, seen, finished) ==
    LET fin == DOMAIN finished
        joined == {t \in DOMAIN plan.joins :
                      barrier_after(plan, seen, fin, t) = plan.joins[t]}
    IN {e[2] : e \in {d \in plan.direct : d[1] \in fin}}
       \cup joined
       \cup UNION {{plan.routes[n][h] : h \in DOMAIN plan.routes[n]} :
                      n \in fin \cap DOMAIN plan.routes}

\* the nodes triggered by the channels written in the step that just ended
next_tasks(plan, seen, finished) ==
    LET fin == DOMAIN finished
        joined == {t \in DOMAIN plan.joins :
                      barrier_after(plan, seen, fin, t) = plan.joins[t]}
    IN {e[2] : e \in {d \in plan.direct : d[1] \in fin}}
       \cup joined
       \cup ({finished[n].goto : n \in fin} \ {0})

\* a barrier that triggered its target is consumed
barriers_after(plan, seen, finished) ==
    LET fin == DOMAIN finished
    IN [t \in DOMAIN plan.joins |->
           IF barrier_after(plan, seen, fin, t) = plan.joins[t] THEN {}
           ELSE barrier_after(plan, seen, fin, t)]

\* app.stream(input, config): the input is written to the root channel of the
\* thread's last checkpoint and the entry point is scheduled
BeginStream(th, c, input, tasks) ==
    LET ck == store[th]
        st == state_reducer(ck.state, input)
        seen == IF ck.saved THEN ck.seen ELSE fresh_barriers(comp'.plan)
    IN /\ call' = c
       /\ loaded' = ck.saved
       /\ phase' = "running"
       /\ outcome' = "none"
       /\ run' = [NoRun EXCEPT !.state = st, !.initial = st, !.pending = tasks,
                               !.seen = seen]
       /\ calls' = calls + 1

\* mutant of error_events: the completion event follows the error event
error_events_then_complete(evs, n) ==
    Append(Append(evs, Event("error", n, call.thread)), Event("complete", 0, call.thread))

\* except Exception as e: yield the error event; the generator then returns
error_events(evs, n) == Append(evs, Event("error", n, call.thread))

\* mutant of task_input: the writes of the tasks that have finished are visible
task_input_with_writes(st, finished) == merge_writes(st, finished)

\* what a task of the current step is handed: the state as the last step left
\* it, whatever the other tasks of the step have returned so far
task_input(st, finished) == st

\* one task of the current step: the node function, then its branch, which
\* reads the state with the task's own write applied
ExecuteTask(n, m) ==
    /\ phase = "running"
    /\ n \in run.pending \ DOMAIN run.finished
    /\ m \in TaskOutcomes(dslNodes, n)
    /\ ~(call.watching /\ run.marker # 0)
    /\ LET input == task_input(run.state, run.finished)
           update == execute(dslNodes, n, input, m)
           fresh == state_reducer(input, DictUpdate(update))
           conditional == n \in DOMAIN comp.plan.routes
           decision == condition_func(dslNodes, n, fresh)
           routed == conditional => decision \in DOMAIN comp.plan.routes[n]
           goto == IF conditional THEN comp.plan.routes[n][decision] ELSE 0
           chunk == (n :> update)
           asks == Key(INTERRUPT, "__interrupt__") \in DOMAIN update
       IN /\ execCount' = [execCount EXCEPT ![call.thread][n] = @ + 1]
          /\ awaiting' = IF asks THEN [awaiting EXCEPT ![call.thread] = n] ELSE awaiting
          /\ IF raises(dslNodes, n, m) \/ ~routed
             THEN /\ phase' = "done"
                  /\ outcome' = "error"
                  /\ events' = error_events(events, n)
                  /\ run' = [run EXCEPT !.exception =
                                IF raises(dslNodes, n, m) THEN node_exception(dslNodes, n, m)
                                ELSE route_exception(n, decision)]
             ELSE IF call.driver = "server" /\ INTERRUPT \in DOMAIN chunk
             THEN /\ phase' = "done"
                  /\ outcome' = "human_input_required"
                  /\ events' = Append(events, Event("human_input_required", n, call.thread))
                  /\ run' = run
             ELSE /\ phase' = phase
                  /\ outcome' = outcome
                  /\ events' = Append(events, Event("progress", n, call.thread))
                  /\ run' = [run EXCEPT
                        !.finished = @ @@ (n :> [read |-> input, update |-> update,
                                                  goto |-> goto]),
                        !.taken = IF conditional THEN @ @@ (n :> goto) ELSE @,
                        !.marker = IF call.watching /\ asks THEN n ELSE @]
    /\ UNCHANGED <<dslNodes, dslEdges, compilerVars, callVars, comp, call, store, loaded, calls,
                   suspended>>

\* the end of a step: the writes are reduced into the state, the next tasks
\* are prepared and the checkpoint of the thread is replaced
ApplyWrites ==
    /\ phase = "running"
    /\ run.pending # {}
    /\ DOMAIN run.finished = run.pending
    /\ ~(call.watching /\ run.marker # 0)
    /\ LET st == merge_writes(run.state, run.finished)
           tasks == next_tasks(comp.plan, run.seen, run.finished)
           seen == barriers_after(comp.plan, run.seen, run.finished)
       IN /\ run' = [run EXCEPT !.state = st, !.pending = tasks, !.finished = NoTasks,
                                !.seen = seen]
          /\ store' = [store EXCEPT ![call.thread] =
                          [saved |-> TRUE, state |-> st, pending |-> tasks, seen |-> seen]]
    /\ UNCHANGED <<dslNodes, dslEdges, compilerVars, callVars, comp, phase, call, events, outcome,
                   loaded, execCount, calls, suspended, awaiting>>

\* no task is left: the stream is exhausted
Complete ==
    /\ phase = "running"
    /\ run.pending = {}
    /\ phase' = "done"
    /\ outcome' = "complete"
    /\ events' = Append(events, Event("complete", 0, call.thread))
    /\ UNCHANGED <<dslNodes, dslEdges, compilerVars, callVars, comp, call, run, store, loaded,
                   execCount, calls, suspended, awaiting>>

\* ------------------------------------------------- callers of the compiler
\* The DSLs handed to GraphCompiler: ids 1..n listed in any order.
Listings(n) ==
    {p \in [1..n -> 1..n] : \A i, j \in 1..n : p[i] = p[j] => i = j}

plain_type(n, id) == IF id = 1 THEN START ELSE IF id = n THEN END ELSE AGENT

EdgeRecords(n, handles) == [source : 1..n, target : 1..n, source_handle : handles]

EdgeLists(n, k, handles) == UNION {[1..j -> EdgeRecords(n, handles)] : j \in 0..k}

edge_rank(e) == 100 * e.source + e.target

IsAscending(es) == \A i \in 1..(Len(es) - 1) : edge_rank(es[i]) <= edge_rank(es[i + 1])

\* tests/test_graph_compiler.py test_topological_sort: GraphCompiler(dsl) alone
InitTopo ==
    /\ \E n \in 1..MaxNodes : \E p \in Listings(n) :
          /\ dslNodes = [i \in 1..n |-> [id |-> p[i], type |-> plain_type(n, p[i])]]
          /\ dslEdges \in EdgeLists(n, MaxEdges, {NoHandle})
    /\ pc = "ready"
    /\ topo = NoTopo
    /\ prevTopo = NoTopo
    /\ comp = NoComp
    /\ InitRun
    /\ InitCall

\* compiler._topological_sort()
CallTopologicalSort ==
    /\ pc \in {"ready", "relisted"}
    /\ topo' = topological_sort(dslNodes, dslEdges)
    /\ prevTopo' = topo
    /\ pc' = IF pc = "ready" THEN "sorted" ELSE "resorted"
    /\ UNCHANGED <<dslNodes, dslEdges, comp>>
    /\ UNCHANGED <<runVars, callVars>>

Reverse(s) == [i \in DOMAIN s |-> s[Len(s) + 1 - i]]

RECURSIVE edge_insert(_, _)
edge_insert(e, s) ==
    IF s = <<>> THEN <<e>>
    ELSE IF edge_rank(e) <= edge_rank(Head(s)) THEN <<e>> \o s
    ELSE <<Head(s)>> \o edge_insert(e, Tail(s))

RECURSIVE edge_sort(_)
edge_sort(es) == IF es = <<>> THEN <<>> ELSE edge_insert(Head(es), edge_sort(Tail(es)))

\* The same graph written down again with its nodes and edges in another order
\* (a second GraphCompiler over the same nodes and edges).
Relist ==
    /\ pc = "sorted"
    /\ \/ /\ dslNodes' = Reverse(dslNodes)
          /\ dslEdges' = Reverse(dslEdges)
       \/ /\ dslNodes' = [i \in DOMAIN dslNodes |->
                            [id |-> i, type |-> node_type(dslNodes, i)]]
          /\ dslEdges' = edge_sort(dslEdges)
    /\ pc' = "relisted"
    /\ UNCHANGED <<topo, prevTopo, comp>>
    /\ UNCHANGED <<runVars, callVars>>

NextTopo == CallTopologicalSort \/ Relist

SpecTopo == InitTopo /\ [][NextTopo]_vars

\* GraphCompiler(dsl).compile() on DSLs whose node types vary
InitCompile ==
    /\ \E n \in 1..MaxNodes :
          /\ dslNodes \in [1..n -> [id : 1..n, type : NodeTypes]]
          /\ \A i \in 1..n : dslNodes[i].id = i
          /\ dslEdges \in EdgeLists(n, MaxEdges, {NoHandle})
          /\ IsAscending(dslEdges)
    /\ pc = "ready"
    /\ topo = NoTopo
    /\ prevTopo = NoTopo
    /\ comp = NoComp
    /\ InitRun
    /\ InitCall

\* compiler.compile()
CallCompile ==
    /\ pc = "ready"
    /\ \E strict \in BOOLEAN : comp' = workflow_compile(dslNodes, dslEdges, strict)
    /\ pc' = "compiled"
    /\ UNCHANGED <<dslNodes, dslEdges, topo, prevTopo>>
    /\ UNCHANGED <<runVars, callVars>>

NextCompile == CallCompile

SpecCompile == InitCompile /\ [][NextCompile]_vars


\* ------------------------- DSLs with an edge that names an undeclared node
\* The nodes are 1..n; an edge may name n + 1, which is no node.
InitUndeclared ==
    /\ \E n \in 1..MaxNodes :
          /\ dslNodes \in [1..n -> [id : 1..n, type : NodeTypes]]
          /\ \A i \in 1..n : dslNodes[i].id = i
          /\ dslEdges \in EdgeLists(n + 1, MaxEdges, {NoHandle})
          /\ IsAscending(dslEdges)
          /\ \E i \in DOMAIN dslEdges : n + 1 \in {dslEdges[i].source, dslEdges[i].target}
    /\ pc = "ready"
    /\ topo = NoTopo
    /\ prevTopo = NoTopo
    /\ comp = NoComp
    /\ InitRun
    /\ InitCall

SpecUndeclared == InitUndeclared /\ [][NextCompile]_vars

\* --------------------------------------------------- the graphs that are run
\* Node 1 is the start node, node n the end node; an edge leads from a node to
\* a later one; the edges of a HumanInLoop node carry a decision handle.
Decisions == {"approval", "rejection"}

BranchHandles == {"branch-0", "else"}

\* the handles an edge out of a node of the type may carry
handles_of(type) ==
    IF type = HUMAN_IN_LOOP THEN Decisions
    ELSE IF type = BRANCH THEN BranchHandles
    ELSE {NoHandle}

run_type(n, middle, id) ==
    IF id = 1 THEN START ELSE IF id = n THEN END ELSE middle[id]

RunEdges(n, middle) ==
    {e \in EdgeRecords(n, {NoHandle} \cup Decisions \cup BranchHandles) :
        /\ e.source < e.target
        /\ e.source_handle \in handles_of(run_type(n, middle, e.source))}

handle_rank(h) == IF h = NoHandle THEN 0 ELSE IF h \in {"approval", "branch-0"} THEN 1 ELSE 2

listing_rank(e) == 10 * edge_rank(e) + handle_rank(e.source_handle)

RECURSIVE AscendingLists(_, _)
AscendingLists(U, k) ==
    IF k = 0 THEN {<<>>}
    ELSE {<<>>} \cup
         UNION {{<<e>> \o rest :
                    rest \in AscendingLists({f \in U : listing_rank(f) > listing_rank(e)},
                                            k - 1)} : e \in U}

InitGraph ==
    /\ \E n \in 2..MaxRunNodes : \E middle \in [2..(n - 1) -> {AGENT, HUMAN_IN_LOOP, BRANCH}] :
          /\ dslNodes = [i \in 1..n |-> [id |-> i, type |-> run_type(n, middle, i)]]
          /\ dslEdges \in AscendingLists(RunEdges(n, middle), MaxRunEdges)
    /\ pc = "ready"
    /\ topo = NoTopo
    /\ prevTopo = NoTopo
    /\ comp = NoComp
    /\ InitRun
    /\ InitCall

\* what a caller may hand over as the initial state: nothing, or a key no node
\* writes together with a key the second node writes when it is an agent
InitialStates ==
    {EmptyDict,
     (Key(INTERRUPT, "user") :> Val("test")) @@ (Key(2, "output") :> Val("old"))}

\* what a caller may send as the human input of a node
HumanInputs == {"approved", "rejected", "approve", "nodecision"}

HumanInLoopNodes == {n \in NodeIdSet(dslNodes) : node_type(dslNodes, n) = HUMAN_IN_LOOP}

\* ------------------------------------------------------- POST /run/stream
ServerCall(th, kind, h, v) ==
    [thread |-> th, kind |-> kind, hnode |-> h, hval |-> v, driver |-> "server",
     watching |-> FALSE]

\* workflow.set_entry_point(start_node_id)
entry_tasks(plan) == {plan.entry}

\* the request up to app_instance.stream: the start event, a new GraphCompiler
\* with a checkpointer of its own, compile(); a compile error ends the request
ServerBegin(th, c, input, from_entry) ==
    /\ phase \in {"idle", "done"}
    /\ calls < MaxRequests
    /\ \E strict \in BOOLEAN : comp' = workflow_compile(dslNodes, dslEdges, strict)
    /\ store' = MemorySaver
    /\ IF comp'.status # "ok"
       THEN /\ call' = c
            /\ loaded' = FALSE
            /\ phase' = "done"
            /\ outcome' = "error"
            /\ events' = <<Event("start", 0, th), Event("error", 0, th)>>
            /\ run' = NoRun
            /\ calls' = calls + 1
       ELSE /\ LET ck == store'[th]
                   seen == IF ck.saved THEN ck.seen ELSE fresh_barriers(comp'.plan)
               IN /\ loaded' = ck.saved
                  /\ run' = [NoRun EXCEPT !.state = state_reducer(ck.state, input),
                                          !.initial = state_reducer(ck.state, input),
                                          !.pending = IF from_entry THEN entry_tasks(comp'.plan)
                                                     ELSE {},
                                          !.seen = seen]
            /\ call' = c
            /\ phase' = "running"
            /\ outcome' = "none"
            /\ events' = <<Event("start", 0, th)>>
            /\ calls' = calls + 1
    /\ UNCHANGED <<dslNodes, dslEdges, compilerVars, callVars, execCount, suspended, awaiting>>

\* a request without human_input: input_of_graph = runtime_inputs or {}
ServerRequest(th) ==
    ServerBegin(th, ServerCall(th, "run", 0, "none"), DictUpdate(EmptyDict), TRUE)

\* Command(resume=...) handed to the root channel
CommandUpdate == [kind |-> "other", map |-> EmptyDict, items |-> <<>>]

\* a request with human_input {"<h>_human_input": v}:
\* input_of_graph = Command(resume=v).  The thread has no checkpoint in the new
\* checkpointer; what stream() does with a Command then depends on the
\* installed langgraph: it raises,
ServerResumeRaises(th, h, v) ==
    /\ h = awaiting[th]
    /\ h # 0
    /\ phase \in {"idle", "done"}
    /\ calls < MaxRequests
    /\ \E strict \in BOOLEAN : comp' = workflow_compile(dslNodes, dslEdges, strict)
    /\ store' = MemorySaver
    /\ call' = ServerCall(th, "resume", h, v)
    /\ loaded' = store'[th].saved
    /\ phase' = "done"
    /\ outcome' = "error"
    /\ events' = <<Event("start", 0, th), Event("error", 0, th)>>
    /\ run' = NoRun
    /\ calls' = calls + 1
    /\ UNCHANGED <<dslNodes, dslEdges, compilerVars, callVars, execCount, suspended, awaiting>>

\* or it writes the Command to the root channel as the input of a new run,
ServerResumeRunsFromEntry(th, h, v) ==
    /\ h = awaiting[th]
    /\ h # 0
    /\ ServerBegin(th, ServerCall(th, "resume", h, v), CommandUpdate, TRUE)

\* or it finds no task to resume and the stream ends at once
ServerResumeFindsNothing(th, h, v) ==
    /\ h = awaiting[th]
    /\ h # 0
    /\ ServerBegin(th, ServerCall(th, "resume", h, v), NoneUpdate, FALSE)

Next ==
    \/ \E th \in Threads : ServerRequest(th)
    \/ \E th \in Threads : \E h \in HumanInLoopNodes : \E v \in HumanInputs :
          ServerResumeRaises(th, h, v)
    \/ \E th \in Threads : \E h \in HumanInLoopNodes : \E v \in HumanInputs :
          ServerResumeRunsFromEntry(th, h, v)
    \/ \E th \in Threads : \E h \in HumanInLoopNodes : \E v \in HumanInputs :
          ServerResumeFindsNothing(th, h, v)
    \/ \E n \in NodeIdSet(dslNodes) : \E m \in BranchMatches \cup AgentOutcomes : ExecuteTask(n, m)
    \/ ApplyWrites
    \/ Complete

Spec == InitGraph /\ [][Next]_vars

\* ------------------------------------ a caller of the compiled app (tests)
ClientCall(th, kind, h, v, watching) ==
    [thread |-> th, kind |-> kind, hnode |-> h, hval |-> v, driver |-> "client",
     watching |-> watching]

\* compiler = GraphCompiler(graph_data); app = compiler.compile()
ClientCompile ==
    /\ comp.status = "none"
    /\ phase = "idle"
    /\ \E strict \in BOOLEAN : comp' = workflow_compile(dslNodes, dslEdges, strict)
    /\ store' = MemorySaver
    /\ UNCHANGED <<dslNodes, dslEdges, compilerVars, callVars, phase, call, run, events, outcome,
                   loaded, execCount, calls, suspended, awaiting>>

\* for chunk in app.stream(initial_state, config): ... break at a chunk that carries
\* "__interrupt__" and "<id>_hilp_info"
ClientRun(th, initial_state) ==
    /\ comp.status = "ok"
    /\ phase \in {"idle", "done"}
    /\ calls < MaxRequests
    /\ comp' = comp
    /\ BeginStream(th, ClientCall(th, "run", 0, "none", TRUE), DictUpdate(initial_state),
                   entry_tasks(comp.plan))
    /\ events' = <<>>
    /\ suspended' = [suspended EXCEPT ![th] = 0]
    /\ execCount' = [execCount EXCEPT ![th] = [n \in RunNodeIds |-> 0]]
    /\ UNCHANGED <<dslNodes, dslEdges, compilerVars, callVars, store, awaiting>>

\* the break of the loop above
ClientBreak ==
    /\ phase = "running"
    /\ call.watching
    /\ run.marker # 0
    /\ phase' = "done"
    /\ outcome' = "abandoned"
    /\ suspended' = [suspended EXCEPT ![call.thread] = run.marker]
    /\ UNCHANGED <<dslNodes, dslEdges, compilerVars, callVars, comp, call, run, events, store,
                   loaded, execCount, calls, awaiting>>

\* for chunk in app.stream({"<h>_human_input": {"decision": v, ...}}, config)
ClientResume(th, v) ==
    /\ comp.status = "ok"
    /\ phase = "done"
    /\ outcome = "abandoned"
    /\ call.thread = th
    /\ calls < MaxRequests
    /\ comp' = comp
    /\ BeginStream(th, ClientCall(th, "resume", suspended[th], v, FALSE),
                   DictUpdate(Key(suspended[th], "human_input") :> Val(v)),
                   entry_tasks(comp.plan))
    /\ events' = <<>>
    /\ UNCHANGED <<dslNodes, dslEdges, compilerVars, callVars, store, execCount, suspended,
                   awaiting>>

NextClient ==
    \/ ClientCompile
    \/ \E th \in Threads : \E s \in InitialStates : ClientRun(th, s)
    \/ ClientBreak
    \/ \E th \in Threads : \E v \in HumanInputs : ClientResume(th, v)
    \/ \E n \in NodeIdSet(dslNodes) : \E m \in BranchMatches \cup AgentOutcomes : ExecuteTask(n, m)
    \/ ApplyWrites
    \/ Complete

SpecClient == InitGraph /\ [][NextClient]_vars

\* ================================== WorkflowValidationService (services.py)
\* Largest 'nodes' / 'edges' list of a DSL handed to the validator, and the ids
\* its records draw from.
MaxDslNodes == 2
MaxDslEdges == 1
MaxDslIds == 2

DslIds == 1..MaxDslIds

\* One message of the returned list: what it says and the index (from 0), the
\* node id and the field it names (-1, 0, "" when it names none).
Err(code, i, id, field) == [code |-> code, i |-> i, id |-> id, field |-> field]

\* An entry of dsl['nodes']: a dict with or without 'id' and 'type', or a
\* value that is no dict.
NodeEntries ==
    {[dict |-> FALSE, has_id |-> FALSE, id |-> 0, has_type |-> FALSE]}
    \cup {[dict |-> TRUE, has_id |-> FALSE, id |-> 0, has_type |-> t] : t \in BOOLEAN}
    \cup {[dict |-> TRUE, has_id |-> TRUE, id |-> i, has_type |-> t] :
            i \in DslIds, t \in BOOLEAN}

\* An entry of dsl['edges']; a field that is absent is 0.
EdgeEntries ==
    {[dict |-> FALSE, source |-> 0, target |-> 0]}
    \cup {[dict |-> TRUE, source |-> s, target |-> t] :
            s \in {0} \cup DslIds, t \in {0} \cup DslIds}

ListsOf(S, n) == UNION {[1..k -> S] : k \in 0..n}

\* dsl['nodes']: absent, a list, a value that is no list and can be iterated
\* (a str: none of its elements is a dict), or one that cannot (None, an int).
NodesFields ==
    {[form |-> f, items |-> <<>>] : f \in {"absent", "iterable", "scalar"}}
    \cup {[form |-> "list", items |-> l] : l \in ListsOf(NodeEntries, MaxDslNodes)}

EdgesFields ==
    {[form |-> f, items |-> <<>>] : f \in {"absent", "scalar"}}
    \cup {[form |-> "list", items |-> l] : l \in ListsOf(EdgeEntries, MaxDslEdges)}

Dsls ==
    {[of |-> "validate_workflow_dsl", dict |-> FALSE,
      nodes |-> [form |-> "absent", items |-> <<>>],
      edges |-> [form |-> "absent", items |-> <<>>]]}
    \cup {[of |-> "validate_workflow_dsl", dict |-> TRUE, nodes |-> n, edges |-> e] :
            n \in NodesFields, e \in EdgesFields}

\* for field in ['nodes', 'edges']: if field not in dsl: ...
missing_fields(dsl) ==
    (IF dsl.nodes.form = "absent" THEN <<Err("missing_field", -1, 0, "nodes")>> ELSE <<>>)
    \o (IF dsl.edges.form = "absent" THEN <<Err("missing_field", -1, 0, "edges")>> ELSE <<>>)

\* what one pass of the node loop appends; indexes count from 0
node_errors(node, i, ids) ==
    IF ~node.dict THEN <<Err("node_not_dict", i - 1, 0, "")>>
    ELSE IF ~node.has_id THEN <<Err("node_missing_id", i - 1, 0, "")>>
    ELSE (IF node.id \in ids THEN <<Err("duplicate_id", -1, node.id, "")>> ELSE <<>>)
         \o (IF ~node.has_type THEN <<Err("node_missing_type", -1, node.id, "")>> ELSE <<>>)

\* for i, node in enumerate(nodes): ...
RECURSIVE node_loop(_, _, _)
node_loop(nodes, i, ids) ==
    IF i > Len(nodes) THEN <<>>
    ELSE node_errors(nodes[i], i, ids)
         \o node_loop(nodes, i + 1,
                      IF nodes[i].dict /\ nodes[i].has_id
                      THEN ids \cup {nodes[i].id} ELSE ids)

\* dsl.get('nodes', []) and the branch on isinstance(nodes, list)
validate_nodes(dsl) ==
    IF dsl.nodes.form \in {"iterable", "scalar"} THEN <<Err("nodes_not_list", -1, 0, "")>>
    ELSE node_loop(dsl.nodes.items, 1, {})

\* {node.get('id') for node in nodes if isinstance(node, dict) and 'id' in node}
edge_node_ids(dsl) ==
    {dsl.nodes.items[i].id : i \in {j \in DOMAIN dsl.nodes.items :
                                      dsl.nodes.items[j].dict /\ dsl.nodes.items[j].has_id}}

\* for field in ['source', 'target']: ...
edge_field_errors(value, i, field, ids) ==
    IF value = 0 THEN <<Err("edge_missing_field", i - 1, 0, field)>>
    ELSE IF value \notin ids THEN <<Err("edge_unknown_node", i - 1, value, "")>>
    ELSE <<>>

RECURSIVE edge_loop(_, _, _)
edge_loop(edges, i, ids) ==
    IF i > Len(edges) THEN <<>>
    ELSE (IF ~edges[i].dict THEN <<Err("edge_not_dict", i - 1, 0, "")>>
          ELSE edge_field_errors(edges[i].source, i, "source", ids)
               \o edge_field_errors(edges[i].target, i, "target", ids))
         \o edge_loop(edges, i + 1, ids)

\* the set comprehension iterates `nodes` whatever it is
comprehension_raises(dsl) == dsl.edges.form # "scalar" /\ dsl.nodes.form = "scalar"

validate_edges(dsl) ==
    IF dsl.edges.form = "scalar" THEN <<Err("edges_not_list", -1, 0, "")>>
    ELSE edge_loop(dsl.edges.items, 1, edge_node_ids(dsl))

\* WorkflowValidationService.validate_workflow_dsl
validate_workflow_dsl(dsl) ==
    IF ~dsl.dict THEN [raised |-> FALSE, errors |-> <<Err("dsl_not_dict", -1, 0, "")>>]
    ELSE IF comprehension_raises(dsl) THEN [raised |-> TRUE, errors |-> <<>>]
    ELSE [raised |-> FALSE,
          errors |-> missing_fields(dsl) \o validate_nodes(dsl) \o validate_edges(dsl)]

\* ------------------------------------------------- a caller of the validator
InitValidate ==
    /\ dslNodes = <<>>
    /\ dslEdges = <<>>
    /\ pc = "start"
    /\ topo = NoTopo
    /\ prevTopo = NoTopo
    /\ comp = NoComp
    /\ InitRun
    /\ arg \in Dsls
    /\ ret = NoRet
    /\ InitMgmt

CallValidate ==
    /\ pc = "start"
    /\ arg.of = "validate_workflow_dsl"
    /\ ret' = validate_workflow_dsl(arg)
    /\ pc' = "returned"
    /\ UNCHANGED <<dslNodes, dslEdges, topo, prevTopo, comp, arg>>
    /\ UNCHANGED <<runVars, mgmtVars>>

NextValidate == CallValidate

SpecValidate == InitValidate /\ [][NextValidate]_vars

\* ================================================ callers of state_reducer
\* Largest number of successive calls, largest "__updates__" list; the keys and
\* values of the dicts handed over.
MaxReducerCalls == 2
MaxBatch == 2
MaxReducerKeys == 2

ReducerKeys == {Key(n, "output") : n \in 1..MaxReducerKeys}

ReducerValues == {Val("a"), Val("b")}

\* the dicts whose keys are state keys
FlatDicts == UNION {[K -> ReducerValues] : K \in SUBSET ReducerKeys}

\* an item of an "__updates__" list: a dict or a value that is none
BatchItems ==
    {[kind |-> "dict", map |-> m] : m \in FlatDicts}
    \cup {[kind |-> "other", map |-> EmptyDict]}

\* every shape of the second argument
Updates ==
    {NoneUpdate, [kind |-> "other", map |-> EmptyDict, items |-> <<>>]}
    \cup {DictUpdate(m) : m \in FlatDicts}
    \cup {BatchUpdate(l) : l \in ListsOf(BatchItems, MaxBatch)}
    \cup {[kind |-> "dict", map |-> (MARKER :> e), items |-> <<>>] :
            e \in {SizedEntry, UnsizedEntry}}

ReducerCalls ==
    {[of |-> "state_reducer", x |-> x, updates |-> us] :
        x \in FlatDicts, us \in ListsOf(Updates, MaxReducerCalls) \ {<<>>}}

InitReducer ==
    /\ dslNodes = <<>>
    /\ dslEdges = <<>>
    /\ pc = "start"
    /\ topo = NoTopo
    /\ prevTopo = NoTopo
    /\ comp = NoComp
    /\ InitRun
    /\ arg \in ReducerCalls
    /\ ret = [raised |-> FALSE, value |-> arg.x, n |-> 0,
              passed |-> arg.x,
              objects |-> [x |-> arg.x, y |-> NoneUpdate, result_is_new |-> TRUE]]
    /\ InitMgmt

\* state = state_reducer(state, update), for the next update of the list; the
\* call is handed the state as x and the update as y
CallReducer ==
    /\ pc = "start"
    /\ arg.of = "state_reducer"
    /\ ~ret.raised
    /\ ret.n < Len(arg.updates)
    /\ LET y == arg.updates[ret.n + 1]
           objects == reducer_objects(ret.value, y)
       IN ret' = IF reducer_raises(y)
                 THEN [raised |-> TRUE, value |-> ret.value, n |-> ret.n + 1,
                       passed |-> ret.value, objects |-> objects]
                 ELSE [raised |-> FALSE, value |-> state_reducer(ret.value, y),
                       n |-> ret.n + 1,
                       passed |-> ret.value, objects |-> objects]
    /\ UNCHANGED <<dslNodes, dslEdges, compilerVars, comp, arg>>
    /\ UNCHANGED <<runVars, mgmtVars>>

NextReducer == CallReducer

SpecReducer == InitReducer /\ [][NextReducer]_vars

\* ------------------- the graphs of test_conditional_graph_execution, run
\* ------------------- through POST /run/stream
\* start, branch, the static nodes the branch routes to, end
ConditionalNodes ==
    [i \in 1..(MaxTargets + 3) |->
        [id |-> i,
         type |-> IF i = 1 THEN START ELSE IF i = 2 THEN BRANCH
                  ELSE IF i = MaxTargets + 3 THEN END ELSE AGENT]]

\* "branch-0", "branch-1": the handles of the edges out of the branch
branch_handle(i) ==
    IF i = 0 THEN "branch-0" ELSE IF i = 1 THEN "branch-1"
    ELSE IF i = 2 THEN "branch-2" ELSE IF i = 3 THEN "branch-3" ELSE "branch-4"

\* e1: start -> branch; e2, e3: branch -> a static node each; e4: branch ->
\* end; e5, e6: static node -> end
ConditionalEdges ==
    <<[source |-> 1, target |-> 2, source_handle |-> NoHandle]>>
    \o [i \in 1..MaxTargets |->
          [source |-> 2, target |-> i + 2, source_handle |-> branch_handle(i - 1)]]
    \o <<[source |-> 2, target |-> MaxTargets + 3, source_handle |-> "else"]>>
    \o [i \in 1..MaxTargets |->
          [source |-> i + 2, target |-> MaxTargets + 3, source_handle |-> NoHandle]]

\* the list with some of its edges left out
RECURSIVE Sublists(_)
Sublists(list) ==
    IF list = <<>> THEN {<<>>}
    ELSE Sublists(Tail(list)) \cup {<<Head(list)>> \o rest : rest \in Sublists(Tail(list))}

InitConditional ==
    /\ dslNodes = ConditionalNodes
    /\ dslEdges \in Sublists(ConditionalEdges)
    /\ pc = "ready"
    /\ topo = NoTopo
    /\ prevTopo = NoTopo
    /\ comp = NoComp
    /\ InitRun
    /\ InitCall

NextConditional ==
    \/ \E th \in Threads : ServerRequest(th)
    \/ \E n \in NodeIdSet(dslNodes) : \E m \in BranchMatches \cup AgentOutcomes : ExecuteTask(n, m)
    \/ ApplyWrites
    \/ Complete

SpecConditional == InitConditional /\ [][NextConditional]_vars

\* ---------------------------- direct calls of the node functions
\* ---------------------------- (tests/test_human_in_loop_node.py,
\* ---------------------------- tests/test_branch_node.py)
\* Largest number of conditions of a Branch node.
MaxConditions == 3

\* the id of the node that is called
CalledNode == 1

\* values of {id}_decision in the state handed to the node
DecisionValues == {Val("approved"), Val("rejected"), Val("approve"), Val("invalid_decision")}

\* values of {id}_human_input: with or without a decision, with or without a
\* comment, a mapping or not
HumanInputValues == {<<d, c>> : d \in HumanInputs, c \in 0..2}

\* the states handed to a HumanInLoopNode: any of the two keys it reads, and
\* data of another node
HilStates ==
    {d @@ h @@ o :
        d \in {EmptyDict} \cup {(Key(CalledNode, "decision") :> v) : v \in DecisionValues},
        h \in {EmptyDict} \cup {(Key(CalledNode, "human_input") :> v) : v \in HumanInputValues},
        o \in {EmptyDict, (Key(CalledNode + 1, "output") :> Val("previous_data"))}}

\* what eval(condition.condition, ...) does for one condition on the state at
\* hand: a truthy result, a falsy result, or an exception
Evaluations == {"truthy", "falsy", "raises"}

RECURSIVE EvaluationLists(_)
EvaluationLists(k) ==
    IF k = 0 THEN {<<>>}
    ELSE EvaluationLists(k - 1)
         \cup {Append(l, e) : l \in {x \in EvaluationLists(k - 1) : Len(x) = k - 1},
                               e \in Evaluations}

\* mutant of loop_break: the last condition that holds decides
loop_break_last(conditions) ==
    IF \E i \in DOMAIN conditions : conditions[i] = "truthy"
    THEN CHOOSE i \in DOMAIN conditions :
            /\ conditions[i] = "truthy"
            /\ \A j \in (i + 1)..Len(conditions) : conditions[j] # "truthy"
    ELSE 0

\* the index (from 1) at which the for loop breaks; 0: it runs to its end
loop_break(conditions) ==
    IF \E i \in DOMAIN conditions : conditions[i] = "truthy"
    THEN CHOOSE i \in DOMAIN conditions :
            /\ conditions[i] = "truthy"
            /\ \A j \in 1..(i - 1) : conditions[j] # "truthy"
    ELSE 0

\* BranchNode.execute on conditions that evaluate as listed: the else clause
\* of the for loop raises with and without hasElse, and the outer except
\* clause turns that into ValueError("Error evaluating conditions.")
branch_node_raises(conditions, hasElse) == loop_break(conditions) = 0

branch_node_execute(n, conditions, hasElse) ==
    (Key(n, "decision") :> Val(branch_handle(loop_break(conditions) - 1)))

\* Largest number of edges of a DSL whose routing map is built.
MaxRoutedEdges == 3

\* the edges of the DSL: out of the conditional node and out of another
\* node, with and without handle, in any order
PathMapCalls ==
    {[of |-> "path_map", edges |-> es] :
        es \in EdgeLists(CalledNode + 1, MaxRoutedEdges, {NoHandle} \cup Decisions)}

HilExecuteCalls == {[of |-> "hil_execute", state |-> st] : st \in HilStates}

HilGetDecisionCalls == {[of |-> "hil_get_decision", state |-> st] : st \in HilStates}

BranchExecuteCalls ==
    {[of |-> "branch_execute", conditions |-> l, hasElse |-> e] :
        l \in EvaluationLists(MaxConditions), e \in BOOLEAN}

InitNodeCall ==
    /\ dslNodes = <<>>
    /\ dslEdges = <<>>
    /\ pc = "start"
    /\ topo = NoTopo
    /\ prevTopo = NoTopo
    /\ comp = NoComp
    /\ InitRun
    /\ arg \in HilExecuteCalls \cup HilGetDecisionCalls \cup BranchExecuteCalls
                \cup PathMapCalls
    /\ ret = NoRet
    /\ InitMgmt

\* result = node.execute(state)
CallHilExecute ==
    /\ pc = "start"
    /\ arg.of = "hil_execute"
    /\ ret' = [raised |-> FALSE, value |-> hil_execute(CalledNode, arg.state)]
    /\ pc' = "returned"
    /\ UNCHANGED <<dslNodes, dslEdges, topo, prevTopo, comp, arg>>
    /\ UNCHANGED <<runVars, mgmtVars>>

\* decision = node.get_decision(state)
CallHilGetDecision ==
    /\ pc = "start"
    /\ arg.of = "hil_get_decision"
    /\ ret' = [raised |-> FALSE, value |-> hil_get_decision(CalledNode, arg.state)]
    /\ pc' = "returned"
    /\ UNCHANGED <<dslNodes, dslEdges, topo, prevTopo, comp, arg>>
    /\ UNCHANGED <<runVars, mgmtVars>>

\* result = node.execute(input_state)
CallBranchExecute ==
    /\ pc = "start"
    /\ arg.of = "branch_execute"
    /\ ret' = IF branch_node_raises(arg.conditions, arg.hasElse)
              THEN [raised |-> TRUE, value |-> EmptyDict]
              ELSE [raised |-> FALSE,
                    value |-> branch_node_execute(CalledNode, arg.conditions, arg.hasElse)]
    /\ pc' = "returned"
    /\ UNCHANGED <<dslNodes, dslEdges, topo, prevTopo, comp, arg>>
    /\ UNCHANGED <<runVars, mgmtVars>>

\* the routing map compile() builds for the conditional node
CallPathMap ==
    /\ pc = "start"
    /\ arg.of = "path_map"
    /\ ret' = [raised |-> FALSE, value |-> path_map(arg.edges, CalledNode)]
    /\ pc' = "returned"
    /\ UNCHANGED <<dslNodes, dslEdges, topo, prevTopo, comp, arg>>
    /\ UNCHANGED <<runVars, mgmtVars>>

NextNodeCall ==
    \/ CallPathMap
    \/ CallHilExecute
    \/ CallHilGetDecision
    \/ CallBranchExecute

SpecNodeCall == InitNodeCall /\ [][NextNodeCall]_vars

\* ============================ workflow management (domain, infrastructure,
\* ============================ application): entities, repository, requests
\* Workflow.create_new: version 1, status DRAFT, no executions
create_new(id, name) ==
    [id |-> id, name |-> name, version |-> 1, status |-> DRAFT,
     definition |-> 1, total |-> 0, successful |-> 0, failed |-> 0]

update_definition_keeps_version(w, dsl) == [w EXCEPT !.definition = dsl]

\* Workflow.update_definition: the new DSL, version + 1
update_definition(w, dsl) ==
    [w EXCEPT !.definition = dsl, !.version = @ + 1]

\* Workflow.update_metadata: name if name is not None, version + 1
update_metadata(w, name) ==
    [w EXCEPT !.name = IF name # NoName THEN name ELSE @, !.version = @ + 1]

\* Workflow.activate raises ValueError for an archived workflow
activate_raises(w) == w.status = ARCHIVED

activate(w) == [w EXCEPT !.status = ACTIVE]

deactivate(w) == [w EXCEPT !.status = INACTIVE]

archive(w) == [w EXCEPT !.status = ARCHIVED]

\* Workflow.record_execution: total + 1, and successful or failed + 1
record_execution(w, success) ==
    [w EXCEPT !.total = @ + 1,
              !.successful = IF success THEN @ + 1 ELSE @,
              !.failed = IF success THEN @ ELSE @ + 1]

\* SQLAlchemyWorkflowRepository.find_by_id: session.get(WorkflowModel, id)
find_by_id(table, id) == table[id]

\* the rows  select(WorkflowModel).where(WorkflowModel.name == name)  yields
rows_by_name(table, name) ==
    {w \in WorkflowIds : table[w].id # 0 /\ table[w].name = name}

\* result.scalar_one_or_none() raises when several rows match
find_by_name_raises(table, name) == Cardinality(rows_by_name(table, name)) > 1

find_by_name(table, name) ==
    IF rows_by_name(table, name) = {}
    THEN NoWorkflow
    ELSE table[CHOOSE w \in rows_by_name(table, name) : TRUE]

\* save: the version check of an existing row ("optimistic locking")
save_raises(existing_model, workflow) ==
    /\ existing_model.id # 0
    /\ existing_model.version # workflow.version - 1
    /\ workflow.version > 1

\* session.flush() of an updated model: UPDATE of the columns whose value
\* differs from the one the session loaded
flush(row, existing_model, workflow) ==
    [f \in DOMAIN row |->
        IF workflow[f] # existing_model[f] THEN workflow[f] ELSE row[f]]

\* save, flush and commit: INSERT of a new model, UPDATE of an existing one
save(table, existing_model, workflow) ==
    IF existing_model.id = 0
    THEN [table EXCEPT ![workflow.id] = workflow]
    ELSE [table EXCEPT ![workflow.id] = flush(@, existing_model, workflow)]

\* WorkflowId.generate(): an id no row and no open unit of work has
FreshIds ==
    {w \in WorkflowIds :
        /\ db[w].id = 0
        /\ \A s \in Sessions : reqs[s].entity.id # w}

\* what a request that returned leaves in the log
Returned(op, result, before, entity, name, success) ==
    [log EXCEPT !.op = op, !.result = result, !.before = before,
                !.entity = entity, !.name = name, !.success = success]

\* async with create_unit_of_work() as uow, up to the call of save: either
\* the request raises and its unit of work closes, or the entity to be saved
\* waits in the session together with the row the session loaded
Open(s, op, raised, existing, entity, name, success) ==
    /\ reqs[s].pc = "idle"
    /\ log.started < MaxOps
    /\ IF raised # "none"
       THEN /\ reqs' = reqs
            /\ log' = [Returned(op, raised, existing, NoWorkflow, name, success)
                          EXCEPT !.started = @ + 1]
       ELSE /\ reqs' = [reqs EXCEPT ![s] =
                           [pc |-> "save", op |-> op, existing |-> existing,
                            entity |-> entity, name |-> name, success |-> success]]
            /\ log' = [log EXCEPT !.started = @ + 1]
    /\ UNCHANGED db
    /\ UNCHANGED <<dslNodes, dslEdges, compilerVars, comp, runVars, arg, ret>>

\* WorkflowApplicationService.create_workflow with a valid DSL, through
\* WorkflowDomainService.create_workflow up to repository.save
CreateWorkflow(s, name) ==
    /\ FreshIds # {}
    /\ Open(s, "create_workflow",
            IF find_by_name_raises(db, name) THEN "RepositoryError"
            ELSE IF find_by_name(db, name).id # 0 THEN "DuplicateWorkflowError"
            ELSE "none",
            NoWorkflow, create_new(CHOOSE w \in FreshIds : TRUE, name), name, FALSE)

\* update_workflow_definition with a valid DSL
UpdateWorkflowDefinition(s, id) ==
    /\ id \in WorkflowIds
    /\ Open(s, "update_definition",
            IF find_by_id(db, id).id = 0 THEN "ValueError" ELSE "none",
            find_by_id(db, id), update_definition(find_by_id(db, id), 2), NoName, FALSE)

\* update_workflow_metadata(name=name), name possibly None
UpdateWorkflowMetadata(s, id, name) ==
    /\ id \in WorkflowIds
    /\ Open(s, "update_metadata",
            IF find_by_id(db, id).id = 0 THEN "ValueError"
            ELSE IF name # NoName /\ name # find_by_id(db, id).name
                 THEN IF find_by_name_raises(db, name) THEN "RepositoryError"
                      ELSE IF find_by_name(db, name).id \notin {0, id}
                           THEN "DuplicateWorkflowError"
                           ELSE "none"
                 ELSE "none",
            find_by_id(db, id), update_metadata(find_by_id(db, id), name), name, FALSE)

ActivateWorkflow(s, id) ==
    /\ id \in WorkflowIds
    /\ Open(s, "activate",
            IF find_by_id(db, id).id = 0 \/ activate_raises(find_by_id(db, id))
            THEN "ValueError" ELSE "none",
            find_by_id(db, id), activate(find_by_id(db, id)), NoName, FALSE)

DeactivateWorkflow(s, id) ==
    /\ id \in WorkflowIds
    /\ Open(s, "deactivate",
            IF find_by_id(db, id).id = 0 THEN "ValueError" ELSE "none",
            find_by_id(db, id), deactivate(find_by_id(db, id)), NoName, FALSE)

ArchiveWorkflow(s, id) ==
    /\ id \in WorkflowIds
    /\ Open(s, "archive",
            IF find_by_id(db, id).id = 0 THEN "ValueError" ELSE "none",
            find_by_id(db, id), archive(find_by_id(db, id)), NoName, FALSE)

RecordWorkflowExecution(s, id, success) ==
    /\ id \in WorkflowIds
    /\ Open(s, "record_execution",
            IF find_by_id(db, id).id = 0 THEN "ValueError" ELSE "none",
            find_by_id(db, id), record_execution(find_by_id(db, id), success),
            NoName, success)

\* session.get(WorkflowModel, workflow.id.value) inside save: the model the
\* session already holds, else the row of the table
existing_model(s) ==
    IF reqs[s].existing.id # 0 THEN reqs[s].existing ELSE db[reqs[s].entity.id]

\* await uow.workflows.save(workflow); await uow.commit(); return
SaveAndCommit(s) ==
    /\ reqs[s].pc = "save"
    /\ LET r == reqs[s]
           raised == save_raises(existing_model(s), r.entity)
       IN /\ db' = IF raised THEN db ELSE save(db, existing_model(s), r.entity)
          /\ log' = [Returned(r.op, IF raised THEN "WorkflowConflictError" ELSE "ok",
                              r.existing, r.entity, r.name, r.success)
                        EXCEPT !.recorded =
                            IF r.op = "record_execution" /\ ~raised
                            THEN [@ EXCEPT ![r.entity.id] = @ + 1] ELSE @,
                               !.archived =
                            IF r.op = "archive" /\ ~raised
                            THEN @ \cup {r.entity.id} ELSE @]
    /\ reqs' = [reqs EXCEPT ![s] = NoRequest]
    /\ UNCHANGED <<dslNodes, dslEdges, compilerVars, comp, runVars, arg, ret>>

\* one step of the request served by unit of work s
RequestStep(s) ==
    \/ \E name \in Names : CreateWorkflow(s, name)
    \/ \E id \in WorkflowIds : UpdateWorkflowDefinition(s, id)
    \/ \E id \in WorkflowIds, name \in Names \cup {NoName} :
          UpdateWorkflowMetadata(s, id, name)
    \/ \E id \in WorkflowIds : ActivateWorkflow(s, id)
    \/ \E id \in WorkflowIds : DeactivateWorkflow(s, id)
    \/ \E id \in WorkflowIds : ArchiveWorkflow(s, id)
    \/ \E id \in WorkflowIds, success \in BOOLEAN :
          RecordWorkflowExecution(s, id, success)
    \/ SaveAndCommit(s)

InitWorkflows ==
    /\ dslNodes = <<>>
    /\ dslEdges = <<>>
    /\ pc = "start"
    /\ topo = NoTopo
    /\ prevTopo = NoTopo
    /\ comp = NoComp
    /\ InitRun
    /\ InitCall

\* requests served one after another
NextWorkflowsInTurn == RequestStep(1)

SpecWorkflowsInTurn == InitWorkflows /\ [][NextWorkflowsInTurn]_vars

\* requests served concurrently: each await is a point where another
\* request may run
NextWorkflows == \E s \in Sessions : RequestStep(s)

SpecWorkflows == InitWorkflows /\ [][NextWorkflows]_vars

\* ======================================================== graph vocabulary
\* (used by the properties below; independent of the compiler's operators)
EdgePairs == {<<dslEdges[i].source, dslEdges[i].target>> : i \in DOMAIN dslEdges}

DeclaredIds == {dslNodes[i].id : i \in DOMAIN dslNodes}

Compose(R) == {<<a[1], b[2]>> : <<a, b>> \in {<<x, y>> \in R \X R : x[2] = y[1]}}

RECURSIVE Reach(_, _)
Reach(R, k) == IF k = 0 THEN R ELSE Reach(R \cup Compose(R), k - 1)

Reaches == Reach(EdgePairs, Len(dslNodes))

HasCycle == \E n \in DeclaredIds : <<n, n>> \in Reaches

OnOrAfterCycle ==
    {n \in DeclaredIds : \E m \in DeclaredIds :
        <<m, m>> \in Reaches /\ (m = n \/ <<m, n>> \in Reaches)}

CountOfType(t) == Cardinality({i \in DOMAIN dslNodes : dslNodes[i].type = t})

HasInbound(n) == \E p \in EdgePairs : p[2] = n

HasOutbound(n) == \E p \in EdgePairs : p[1] = n

PassesStructureChecks ==
    /\ CountOfType(START) = 1
    /\ CountOfType(END) = 1
    /\ \A i \in DOMAIN dslNodes :
          dslNodes[i].type \notin {START, END} =>
              HasInbound(dslNodes[i].id) /\ HasOutbound(dslNodes[i].id)

PositionIn(order, n) == CHOOSE i \in DOMAIN order : order[i] = n

EmittedBefore(order, k) == {order[i] : i \in 1..(k - 1)}

ReadyAt(order, k) ==
    {n \in DeclaredIds \ EmittedBefore(order, k) :
        \A p \in EdgePairs : p[2] = n => p[1] \in EmittedBefore(order, k)}

\* ---- runs
\* Start -> HumanApproval -> End
IsApprovalChain ==
    /\ Len(dslNodes) = 3
    /\ HumanInLoopNodes = {2}
    /\ EdgePairs = {<<1, 2>>, <<2, 3>>}

EndId == Len(dslNodes)

Upstream(h) == {n \in DeclaredIds : <<n, h>> \in Reaches}

HandleOf(d) == IF d = "approved" THEN "approval" ELSE "rejection"

HasEdge(h, handle) ==
    \E i \in DOMAIN dslEdges :
        dslEdges[i].source = h /\ dslEdges[i].source_handle = handle

EdgeFollowed(h, handle, t) ==
    \E i \in DOMAIN dslEdges :
        /\ dslEdges[i].source = h
        /\ dslEdges[i].source_handle = handle
        /\ dslEdges[i].target = t

StaticSources(t) ==
    {dslEdges[i].source : i \in {j \in DOMAIN dslEdges :
        /\ dslEdges[j].target = t
        /\ dslNodes[dslEdges[j].source].type \notin {BRANCH, HUMAN_IN_LOOP}}}

StartedThisStep(n) == n \in DOMAIN run.finished

CompletedAndMerged(n) ==
    /\ \E i \in DOMAIN events : events[i].type = "progress" /\ events[i].node = n
    /\ n \notin DOMAIN run.finished

ResumeDone == call.kind = "resume" /\ phase = "done"

NoOtherNodeFailed(h) ==
    \A i \in DOMAIN events : events[i].type = "error" => events[i].node = h

\* ---- routing
ConditionalIds ==
    {n \in DeclaredIds : node_type(dslNodes, n) \in {BRANCH, HUMAN_IN_LOOP}}

TargetsOf(n) ==
    {dslEdges[i].target : i \in {j \in DOMAIN dslEdges : dslEdges[j].source = n}}

HasRoute(n, handle) == HasEdge(n, handle)

\* the routing map keeps the last listed edge of a handle
RoutingTarget(n, handle) ==
    LET last == CHOOSE i \in DOMAIN dslEdges :
                   /\ dslEdges[i].source = n
                   /\ dslEdges[i].source_handle = handle
                   /\ \A j \in DOMAIN dslEdges :
                         (dslEdges[j].source = n /\ dslEdges[j].source_handle = handle)
                            => j <= i
    IN dslEdges[last].target

\* a step of the run ends: its writes are merged and the next tasks are set
StepCommitted ==
    /\ phase = "running"
    /\ phase' = "running"
    /\ DOMAIN run.finished # {}
    /\ DOMAIN run'.finished = {}

\* another task of the same step leads to u
TriggeredByOther(u, n) ==
    \E k \in DOMAIN run.finished \ {n} :
        IF k \in ConditionalIds THEN run.finished[k].goto = u ELSE u \in TargetsOf(k)

\* ---- leaves
TypeOf(n) == node_type(dslNodes, n)

\* a compute node with an inbound edge and no outgoing edge
ComputeLeaves ==
    {n \in DeclaredIds :
        /\ TypeOf(n) \notin {START, END, BRANCH, HUMAN_IN_LOOP}
        /\ HasInbound(n)
        /\ ~HasOutbound(n)}

\* nothing but its compute leaves keeps the graph from being well formed
WellFormedButForLeaves ==
    /\ CountOfType(START) = 1
    /\ CountOfType(END) = 1
    /\ ~HasCycle
    /\ \A n \in DeclaredIds :
          /\ TypeOf(n) \notin {START, END} => HasInbound(n)
          /\ TypeOf(n) = END => HasInbound(n)
          /\ (TypeOf(n) # END /\ n \notin ComputeLeaves) => HasOutbound(n)

\* ---- orphans
Listed(n) == PositionIn(node_ids(dslNodes), n)

LacksInbound(n) == TypeOf(n) \notin {START, END} /\ ~HasInbound(n)

Irregular(n) == TypeOf(n) \notin {START, END} /\ (~HasInbound(n) \/ ~HasOutbound(n))

FirstIrregular(n) ==
    Irregular(n) /\ \A k \in DeclaredIds : Listed(k) < Listed(n) => ~Irregular(k)

\* ---- edge references
UndeclaredSources == {i \in DOMAIN dslEdges : dslEdges[i].source \notin DeclaredIds}

UndeclaredTargets == {i \in DOMAIN dslEdges : dslEdges[i].target \notin DeclaredIds}

\* ---- the validator's input and report
Validated == pc = "returned" /\ arg.of = "validate_workflow_dsl"

Reported(code, i, id, field) ==
    \E k \in DOMAIN ret.errors :
        /\ ret.errors[k].code = code
        /\ (i # -1 => ret.errors[k].i = i)
        /\ (id # 0 => ret.errors[k].id = id)
        /\ (field # "" => ret.errors[k].field = field)

NodeItems == IF arg.dict /\ arg.nodes.form = "list" THEN arg.nodes.items ELSE <<>>

EdgeItems == IF arg.dict /\ arg.edges.form = "list" THEN arg.edges.items ELSE <<>>

IdsOfNodeItems == {NodeItems[i].id : i \in {j \in DOMAIN NodeItems :
                                              NodeItems[j].dict /\ NodeItems[j].has_id}}

LacksId(i) == NodeItems[i].dict /\ ~NodeItems[i].has_id

LacksType(i) == NodeItems[i].dict /\ ~NodeItems[i].has_type

RepeatsId(i) ==
    /\ NodeItems[i].dict /\ NodeItems[i].has_id
    /\ \E j \in 1..(i - 1) :
          NodeItems[j].dict /\ NodeItems[j].has_id /\ NodeItems[j].id = NodeItems[i].id

EndOf(i, field) == IF field = "source" THEN EdgeItems[i].source ELSE EdgeItems[i].target

LacksEnd(i, field) == EdgeItems[i].dict /\ EndOf(i, field) = 0

UnknownEnd(i, field) ==
    EdgeItems[i].dict /\ EndOf(i, field) # 0 /\ EndOf(i, field) \notin IdsOfNodeItems

SomeCheckFails ==
    \/ ~arg.dict
    \/ arg.nodes.form # "list"
    \/ arg.edges.form # "list"
    \/ \E i \in DOMAIN NodeItems :
          ~NodeItems[i].dict \/ LacksId(i) \/ LacksType(i) \/ RepeatsId(i)
    \/ \E i \in DOMAIN EdgeItems :
          \/ ~EdgeItems[i].dict
          \/ \E f \in {"source", "target"} : LacksEnd(i, f) \/ UnknownEnd(i, f)

\* ---- calls of the reducer
Reduced(n) == arg.of = "state_reducer" /\ ~ret.raised /\ ret.n = n /\ Len(arg.updates) >= n

IsFlat(y) == y.kind = "dict" /\ MARKER \notin DOMAIN y.map

IsBatch(y) == y.kind = "dict" /\ MARKER \in DOMAIN y.map /\ y.map[MARKER] = ListEntry

\* x overridden by y, key by key
Overridden(x, y) == [k \in DOMAIN x \cup DOMAIN y |-> IF k \in DOMAIN y THEN y[k] ELSE x[k]]

\* the last item of a batch that writes key k, or 0
LastWriter(items, k) ==
    LET W == {i \in DOMAIN items : items[i].kind = "dict" /\ k \in DOMAIN items[i].map}
    IN IF W = {} THEN 0 ELSE CHOOSE i \in W : \A j \in W : j <= i

\* ---- suspension
AskKey == Key(INTERRUPT, "__interrupt__")

\* node n has returned the request for human input in the current stream
HasAsked(n) ==
    \/ n \in DOMAIN run.finished /\ AskKey \in DOMAIN run.finished[n].update
    \/ AskKey \in DOMAIN run.state /\ run.state[AskKey] = <<"human_input_required", n>>

\* the nodes the Start node triggers together with n: they run in n's step
SiblingsOf(n) ==
    {k \in DeclaredIds \ {n} :
        /\ TypeOf(k) = AGENT
        /\ \E s \in DeclaredIds :
              TypeOf(s) = START /\ <<s, n>> \in EdgePairs /\ <<s, k>> \in EdgePairs}

\* ---- failures
Failed == run.exception # NoException

EventTypes == {events[i].type : i \in DOMAIN events}

\* ---- the state of a run
ExecutedNodes == {events[i].node : i \in {j \in DOMAIN events : events[j].type = "progress"}}

\* the keys a node of each type may write
KeysOf(n) ==
    CASE TypeOf(n) = AGENT -> {Key(n, "output")}
      [] TypeOf(n) = END -> {Key(n, "outputs"), Key(INTERRUPT, "outputs")}
      [] TypeOf(n) = BRANCH -> {Key(n, "decision")}
      [] TypeOf(n) = HUMAN_IN_LOOP ->
            {Key(n, "decision"), Key(n, "comment"), Key(n, "user_input"),
             Key(n, "hilp_info"), AskKey}
      [] OTHER -> {}

\* the keys a node of each type writes whenever it returns
SureKeysOf(n) ==
    IF TypeOf(n) = HUMAN_IN_LOOP THEN {} ELSE KeysOf(n)

ReservedKeys == {MARKER, Key(INTERRUPT, "__root__")}

\* ---------------------------------------- workflow-management vocabulary
\* a request has returned after its entity method produced an entity
Produced == log.op # "none" /\ log.entity.id # 0

UpdateOps == {"update_definition", "update_metadata"}

StatusOps == {"activate", "deactivate", "archive"}

\* ids of the rows of the table
Stored == {w \in WorkflowIds : db[w].id # 0}

\* ----------------------------------------------- end-of-run vocabulary
\* the edges of the DSL
DslEdgeSet == {dslEdges[i] : i \in DOMAIN dslEdges}

\* the stream of a graph that compiled is over, and no node raised or asked
\* for human input in it
RanToTheEnd ==
    /\ phase = "done"
    /\ comp.status = "ok"
    /\ ~Failed
    /\ outcome # "human_input_required"

\* the Branch routes to static nodes, each of which has an edge to End
BranchTargetsLeadToEnd ==
    /\ \E e \in DslEdgeSet : node_type(dslNodes, e.source) = BRANCH
    /\ \A e \in DslEdgeSet :
          node_type(dslNodes, e.source) = BRANCH =>
              \/ e.target = EndId
              \/ /\ node_type(dslNodes, e.target) = AGENT
                 /\ \E f \in DslEdgeSet : f.source = e.target /\ f.target = EndId

\* ------------------------------------------------- response vocabulary
\* the events that end a response
TerminalTypes == {"human_input_required", "complete", "error"}

\* the response of the current request is being sent or has been sent
Responding == call.driver = "server" /\ phase \in {"running", "done"}

\* --------------------------------------------- node-call vocabulary
\* the function has been called directly and has returned or raised
Called(f) == pc = "returned" /\ arg.of = f

DecisionKey == Key(CalledNode, "decision")

HumanInputKey == Key(CalledNode, "human_input")

\* the returned dict carries the interrupt marker
Asks == Key(INTERRUPT, "__interrupt__") \in DOMAIN ret.value

\* the decision the human input names, 'rejected' when it names none
NamedDecision(h) == IF h[1] = "nodecision" THEN Val("rejected") ELSE Val(h[1])

\* what execute returns for a human input that is a mapping
ReturnsInput(h) ==
    /\ DOMAIN ret.value =
          {DecisionKey, Key(CalledNode, "comment"), Key(CalledNode, "user_input")}
    /\ ret.value[DecisionKey] = NamedDecision(h)
    /\ ret.value[Key(CalledNode, "comment")] = (IF h[2] = 1 THEN Val("comment") ELSE Val(""))
    /\ ret.value[Key(CalledNode, "user_input")] = h

\* what execute returns when it asks for human input
ReturnsInterrupt ==
    /\ Asks
    /\ Key(CalledNode, "hilp_info") \in DOMAIN ret.value
    /\ DecisionKey \notin DOMAIN ret.value

\* the keys an update writes: those of a flat mapping, those of the mappings
\* of a batch
Written(y) ==
    IF IsFlat(y) THEN DOMAIN y.map
    ELSE IF IsBatch(y)
    THEN UNION {DOMAIN y.items[i].map : i \in {j \in DOMAIN y.items : y.items[j].kind = "dict"}}
    ELSE {}

\* ================================================================= claims

\* C1: a request that runs Start -> HumanApproval -> End with no human input
\* ends with the human_input_required signal; no routing decision has been
\* taken out of the HumanApproval node and End has not executed.
C1_RunWithoutInputSuspends ==
    (IsApprovalChain /\ comp.status = "ok" /\ call.kind = "run" /\ phase = "done") =>
        /\ outcome = "human_input_required"
        /\ run.taken = NoTaken
        /\ \A i \in DOMAIN events : ~(events[i].type = "progress" /\ events[i].node = EndId)

\* C2 (as claimed): a stream that resumes a run abandoned at HumanApproval node
\* h with the input {decision: d}, d approved or rejected, ends complete with
\* h_decision = d in the state, and the edge followed out of h is the one whose
\* handle is approval for approved and rejection for rejected.
C2_ResumeCompletesWithDecision ==
    (call.driver = "client" /\ ResumeDone /\ call.hval \in {"approved", "rejected"}) =>
        /\ outcome = "complete"
        /\ Key(call.hnode, "decision") \in DOMAIN run.state
        /\ run.state[Key(call.hnode, "decision")] = Val(call.hval)
        /\ call.hnode \in DOMAIN run.taken
        /\ EdgeFollowed(call.hnode, HandleOf(call.hval), run.taken[call.hnode])

\* C2 (amended): the same, for a graph in which h is the only HumanApproval
\* node and has both an approval and a rejection edge, when no other node of
\* the resumed run fails.
C2_ResumeCompletesWithDecisionWhenBothEdges ==
    (/\ call.driver = "client"
     /\ ResumeDone
     /\ call.hval \in {"approved", "rejected"}
     /\ NoOtherNodeFailed(call.hnode)
     /\ HumanInLoopNodes = {call.hnode}
     /\ HasEdge(call.hnode, "approval")
     /\ HasEdge(call.hnode, "rejection")) =>
        /\ outcome = "complete"
        /\ Key(call.hnode, "decision") \in DOMAIN run.state
        /\ run.state[Key(call.hnode, "decision")] = Val(call.hval)
        /\ call.hnode \in DOMAIN run.taken
        /\ EdgeFollowed(call.hnode, HandleOf(call.hval), run.taken[call.hnode])

C2_Witness ==
    /\ call.driver = "client"
    /\ ResumeDone
    /\ call.hval = "approved"
    /\ suspended[call.thread] = call.hnode
    /\ HumanInLoopNodes = {call.hnode}
    /\ HasEdge(call.hnode, "approval")
    /\ HasEdge(call.hnode, "rejection")
    /\ outcome = "complete"
    /\ call.hnode \in DOMAIN run.taken
    /\ ~EdgeFollowed(call.hnode, "rejection", run.taken[call.hnode])
    /\ run.state[Key(call.hnode, "decision")] = Val("approved")

\* C3: when a resume request for node h has been served, every node upstream of
\* h has executed exactly once on the thread, and h, the pending node, has been
\* invoked a second time.
C3_UpstreamExecutesOnceAcrossResume ==
    (call.driver = "server" /\ ResumeDone) =>
        /\ \A n \in Upstream(call.hnode) : execCount[call.thread][n] = 1
        /\ execCount[call.thread][call.hnode] = 2

\* C4: a resume request that carries the thread id of a run that asked for human
\* input (and so saved a checkpoint after every step before that) finds that
\* thread's checkpoint.
C4_ResumeRequestFindsCheckpoint ==
    (call.driver = "server" /\ call.kind = "resume" /\ awaiting[call.thread] # 0) =>
        loaded

\* C5: when a resume request for node h has been served, the state holds the
\* supplied input under h_human_input and the decision h produced from it.
C5_ResumeInputStoredUnderNodeKey ==
    (call.driver = "server" /\ ResumeDone) =>
        /\ Key(call.hnode, "human_input") \in DOMAIN run.state
        /\ Key(call.hnode, "decision") \in DOMAIN run.state

\* C6: a node that is the target of edges from two or more static sources is
\* not executed before each of those sources has completed in the same run and
\* its output has been merged into the state.
C6_JoinTargetWaitsForAllSources ==
    \A t \in DeclaredIds :
        (Cardinality(StaticSources(t)) >= 2 /\ StartedThisStep(t)) =>
            \A s \in StaticSources(t) : CompletedAndMerged(s)

\* C11: when a step ends in which a Branch or HumanApproval node completed, the
\* target its routing map assigns to the handle get_decision returns on the
\* merged state is scheduled, and no target of its other handles is scheduled
\* by it.
C11_ConditionalSchedulesOneTarget ==
    [][StepCommitted =>
          \A n \in DOMAIN run.finished \cap ConditionalIds :
              LET d == condition_func(dslNodes, n, run'.state)
              IN /\ HasRoute(n, d)
                 /\ RoutingTarget(n, d) \in run'.pending
                 /\ \A u \in TargetsOf(n) \ {RoutingTarget(n, d)} :
                       u \in run'.pending => TriggeredByOther(u, n)]_vars

C11_Witness ==
    /\ phase = "running"
    /\ DOMAIN run.finished = {}
    /\ \E n \in DOMAIN run.taken :
          /\ node_type(dslNodes, n) = BRANCH
          /\ run.taken[n] \in run.pending
          /\ \E u \in TargetsOf(n) : u # run.taken[n] /\ u \notin run.pending

\* C12: when the decision of a conditional node has no entry in the node's
\* routing map, the run fails with an error that names the node id and the
\* decision value, and the node schedules no successor.
C12_UnmatchedDecisionIsPlanError ==
    (phase = "done" /\ run.exception.type = "KeyError") =>
        LET n == events[Len(events)].node
        IN /\ outcome = "error"
           /\ n \in ConditionalIds
           /\ ~HasRoute(n, run.exception.text)
           /\ n \notin DOMAIN run.finished
           /\ run.exception.node = n

\* C13: a graph whose only irregularity is a compute node with an inbound edge
\* and no outgoing edge compiles, and that node is wired to End.
C13_ComputeLeafIsAutoWired ==
    (pc = "compiled" /\ WellFormedButForLeaves /\ ComputeLeaves # {}) =>
        /\ comp.status = "ok"
        /\ ComputeLeaves \subseteq comp.plan.to_end

\* C14 (as claimed): every node other than Start and End without inbound edge
\* makes compile() fail with a structure error that names that node.
C14_NoInboundIsStructureErrorNamingNode ==
    pc = "compiled" =>
        \A n \in DeclaredIds :
            LacksInbound(n) =>
                comp.status = "structure_error" /\ comp.error_node = n

\* C14 (amended): every node other than Start and End without inbound edge
\* makes compile() fail with a structure error; the error names that node when
\* the graph has one Start and one End and no node listed before it lacks an
\* inbound or an outgoing edge.
C14_NoInboundIsStructureError ==
    pc = "compiled" =>
        \A n \in DeclaredIds :
            LacksInbound(n) =>
                /\ comp.status = "structure_error"
                /\ comp.plan = NoPlan
                /\ (CountOfType(START) = 1 /\ CountOfType(END) = 1 /\ FirstIrregular(n))
                      => comp.error_node = n

C14_Witness ==
    /\ pc = "compiled"
    /\ CountOfType(START) = 1
    /\ CountOfType(END) = 1
    /\ \E n \in DeclaredIds :
          /\ LacksInbound(n)
          /\ HasOutbound(n)
          /\ FirstIrregular(n)
          /\ comp.error_node = n
          /\ comp.status = "structure_error"

\* C15: a graph whose Start node has no outbound edge fails to compile with an
\* error about its structure (raised by the compiler or by the graph library).
C15_StartWithoutOutboundIsStructureError ==
    (pc = "compiled"
     /\ \E n \in DeclaredIds : TypeOf(n) = START /\ ~HasOutbound(n)) =>
        /\ comp.status \in {"structure_error", "library_error"}
        /\ comp.plan = NoPlan

\* C16: a DSL with an edge whose source or target is no declared node is
\* rejected by the compiler's validation: no order is computed, no graph is
\* built, and no other error (such as a cycle) is reported.
C16_UndeclaredReferenceIsValidationError ==
    (pc = "compiled" /\ (UndeclaredSources # {} \/ UndeclaredTargets # {})) =>
        /\ comp.status \in {"validation_error", "structure_error"}
        /\ comp.order = <<>>
        /\ comp.plan = NoPlan

\* C17: validate_workflow_dsl always returns a list and never raises, and the
\* list reports every violated check at once: for each node record a missing
\* 'id' and a missing 'type', each repeated id, and for each edge every missing
\* or unknown 'source' / 'target'; the list is empty iff no check fails.
C17_ValidatorReportsEveryViolation ==
    Validated =>
        /\ ~ret.raised
        /\ \A i \in DOMAIN NodeItems :
              /\ LacksId(i) => Reported("node_missing_id", i - 1, 0, "")
              /\ LacksType(i) =>
                    \/ Reported("node_missing_type", i - 1, 0, "")
                    \/ NodeItems[i].has_id
                       /\ Reported("node_missing_type", -1, NodeItems[i].id, "")
              /\ RepeatsId(i) => Reported("duplicate_id", -1, NodeItems[i].id, "")
        /\ \A i \in DOMAIN EdgeItems : \A f \in {"source", "target"} :
              /\ LacksEnd(i, f) => Reported("edge_missing_field", i - 1, 0, f)
              /\ UnknownEnd(i, f) => Reported("edge_unknown_node", i - 1, EndOf(i, f), "")
        /\ (ret.errors = <<>>) <=> ~SomeCheckFails

\* C18: for every state s and flat mappings u1, u2 with disjoint key sets,
\* reducing s by u1 then u2 gives what reducing by u2 then u1 gives, and the
\* result holds every key of s, u1 and u2, the updates' values overriding s.
C18_DisjointUpdatesCommute ==
    (Reduced(2) /\ IsFlat(arg.updates[1]) /\ IsFlat(arg.updates[2])
     /\ DOMAIN arg.updates[1].map \cap DOMAIN arg.updates[2].map = {}) =>
        LET u1 == arg.updates[1]
            u2 == arg.updates[2]
        IN /\ ret.value = state_reducer(state_reducer(arg.x, u2), u1)
           /\ DOMAIN ret.value = DOMAIN arg.x \cup DOMAIN u1.map \cup DOMAIN u2.map
           /\ \A k \in DOMAIN ret.value :
                 ret.value[k] = IF k \in DOMAIN u1.map THEN u1.map[k]
                                ELSE IF k \in DOMAIN u2.map THEN u2.map[k]
                                ELSE arg.x[k]

C18_Witness ==
    /\ Reduced(2) /\ IsFlat(arg.updates[1]) /\ IsFlat(arg.updates[2])
    /\ DOMAIN arg.updates[1].map # {} /\ DOMAIN arg.updates[2].map # {}
    /\ DOMAIN arg.updates[1].map \cap DOMAIN arg.updates[2].map = {}
    /\ \E k \in DOMAIN arg.x \cap DOMAIN arg.updates[1].map :
          arg.x[k] # arg.updates[1].map[k]

\* C19: state_reducer never raises, whatever the update is (None, a value that
\* is no mapping, a batch with items that are no mappings, a batch whose
\* "__updates__" entry is no sequence); a malformed contribution leaves the
\* state as it was and the well-formed items of the same batch are applied.
C19_ReducerNeverRaises ==
    (arg.of = "state_reducer" /\ ret.n >= 1) =>
        /\ ~ret.raised
        /\ LET y == arg.updates[ret.n]
           IN /\ (ret.n = 1 /\ ~IsFlat(y) /\ ~IsBatch(y)) => ret.value = arg.x
              /\ (ret.n = 1 /\ IsBatch(y)) =>
                    \A k \in ReducerKeys :
                        LET w == LastWriter(y.items, k)
                        IN IF w # 0 THEN ret.value[k] = y.items[w].map[k]
                           ELSE IF k \in DOMAIN arg.x THEN ret.value[k] = arg.x[k]
                           ELSE k \notin DOMAIN ret.value

\* C20: for a batch of mappings u1..un the result is s overridden by u1, then
\* u2, ..., then un: a key written by several of them has the value of the last
\* one that writes it, a key written by none keeps the value of s, and the key
\* "__updates__" is never added to the state.
C20_BatchIsLastWriterWins ==
    (Reduced(1) /\ IsBatch(arg.updates[1])) =>
        LET items == arg.updates[1].items
        IN /\ MARKER \notin DOMAIN ret.value
           /\ DOMAIN ret.value =
                 DOMAIN arg.x \cup UNION {DOMAIN items[i].map : i \in DOMAIN items}
           /\ \A k \in DOMAIN ret.value :
                 ret.value[k] = IF LastWriter(items, k) = 0 THEN arg.x[k]
                                ELSE items[LastWriter(items, k)].map[k]

C20_Witness ==
    /\ Reduced(1) /\ IsBatch(arg.updates[1])
    /\ LET items == arg.updates[1].items
       IN /\ Len(items) = 2
          /\ items[1].kind = "dict" /\ items[2].kind = "dict"
          /\ \E k \in DOMAIN items[1].map \cap DOMAIN items[2].map \cap DOMAIN arg.x :
                items[1].map[k] # items[2].map[k] /\ arg.x[k] = items[2].map[k]

\* C21: the tasks of one step are all handed the state the step began with:
\* none is handed a key a sibling of the step has written, and the state
\* changes only when every task of the step has finished.
C21_SiblingsReadPreStepState ==
    [][(phase = "running" /\ phase' = "running" /\ calls' = calls) =>
          /\ \A n \in DOMAIN run'.finished \ DOMAIN run.finished :
                run'.finished[n].read = run.state
          /\ \A n \in DOMAIN run.finished \cap DOMAIN run'.finished :
                run'.finished[n].read = run'.state
          /\ run'.state # run.state => DOMAIN run.finished = run.pending]_vars

C21_Witness ==
    /\ phase = "running"
    /\ \E a, b \in DOMAIN run.finished :
          /\ a # b
          /\ DOMAIN run.finished[a].update # {}
          /\ DOMAIN run.finished[a].update \cap DOMAIN run.finished[b].read = {}
          /\ DOMAIN run.finished[b].update # {}

\* C22: when a HumanApproval node asks for input in a step in which a sibling
\* completes, no edge out of the asking node is followed before a resume, the
\* stream ends with the request for input, and the state held for the thread
\* then has the sibling's output.
C22_SiblingMergedAndFrontierHeld ==
    \A n \in HumanInLoopNodes :
        (call.driver = "server" /\ call.kind = "run" /\ HasAsked(n) /\ SiblingsOf(n) # {}) =>
            /\ n \notin DOMAIN run.taken
            /\ phase = "done" =>
                  /\ outcome = "human_input_required"
                  /\ \A k \in SiblingsOf(n) :
                        Key(k, "output") \in DOMAIN store[call.thread].state

\* C23: when a node has asked for human input and the stream has ended, the
\* checkpoint of the thread has that node as pending and the state as it was
\* before the node ran: the asking invocation has added no key to the state.
C23_CheckpointHoldsStateBeforeSuspend ==
    \A n \in HumanInLoopNodes :
        (call.driver = "server" /\ call.kind = "run" /\ phase = "done" /\ HasAsked(n)) =>
            /\ store[call.thread].saved
            /\ n \in store[call.thread].pending
            /\ AskKey \notin DOMAIN store[call.thread].state
            /\ Key(n, "hilp_info") \notin DOMAIN store[call.thread].state
            /\ AskKey \notin DOMAIN run.state
            /\ Key(n, "hilp_info") \notin DOMAIN run.state

\* C24: when a node function (or the routing after it) has raised, the stream
\* is over with the error event as its last event and without a completion
\* event, the request has ended normally, and no node executes afterwards in
\* that run.
C24_NodeFailureEndsRunWithErrorEvent ==
    /\ [](Failed =>
            /\ phase = "done"
            /\ outcome = "error"
            /\ events # <<>>
            /\ events[Len(events)].type = "error"
            /\ "complete" \notin EventTypes
            /\ "human_input_required" \notin EventTypes)
    /\ [][(Failed /\ calls' = calls) => UNCHANGED <<execCount, events, run>>]_vars

C24_Witness ==
    /\ Failed
    /\ run.exception.type = "Exception"
    /\ \E i \in DOMAIN events : events[i].type = "progress"
    /\ \E n \in run.pending \ DOMAIN run.finished : events[Len(events)].node # n

\* C25: the state a completed run returns is the accumulated state: a key of
\* the initial state that no executed node writes has its initial value, the
\* keys written by the executed nodes are present, and neither "__updates__"
\* nor "__root__" is a key of it.
C25_FinalStateIsAccumulatedState ==
    (call.driver = "client" /\ phase = "done" /\ outcome = "complete") =>
        /\ \A k \in DOMAIN run.initial :
              /\ k \in DOMAIN run.state
              /\ k \notin UNION {KeysOf(n) : n \in ExecutedNodes} =>
                    run.state[k] = run.initial[k]
        /\ \A n \in ExecutedNodes :
              /\ SureKeysOf(n) \subseteq DOMAIN run.state
              /\ TypeOf(n) = AGENT => run.state[Key(n, "output")] = Val("result")
              /\ TypeOf(n) = HUMAN_IN_LOOP =>
                    Key(n, "decision") \in DOMAIN run.state
                    \/ Key(n, "hilp_info") \in DOMAIN run.state
        /\ DOMAIN run.state \cap ReservedKeys = {}

C25_Witness ==
    /\ call.driver = "client" /\ phase = "done" /\ outcome = "complete"
    /\ Key(INTERRUPT, "user") \in DOMAIN run.initial
    /\ \E n \in ExecutedNodes : TypeOf(n) = AGENT /\ n # 2
    /\ 2 \in ExecutedNodes /\ TypeOf(2) = AGENT
    /\ run.state[Key(2, "output")] # run.initial[Key(2, "output")]

\* C26: a workflow's version starts at 1, grows by exactly 1 with each
\* update_definition and update_metadata, is left alone by activate,
\* deactivate, archive and record_execution, and never decreases while
\* requests are served one after another.
C26_VersionCountsUpdates ==
    /\ [](Produced =>
            /\ log.op = "create_workflow" => log.entity.version = 1
            /\ log.op \in UpdateOps => log.entity.version = log.before.version + 1
            /\ log.op \in StatusOps \cup {"record_execution"} =>
                  log.entity.version = log.before.version
            /\ log.result = "ok" => db[log.entity.id].version = log.entity.version)
    /\ [][\A w \in WorkflowIds :
            /\ db'[w].version >= db[w].version
            /\ db'[w].version <= db[w].version + 1]_vars

\* created, activated, then its definition and its metadata updated
C26_Witness ==
    /\ log.op = "update_metadata"
    /\ log.result = "ok"
    /\ log.before.version = 2
    /\ db[log.entity.id].version = 3
    /\ db[log.entity.id].status = ACTIVE

\* C27: for a stored workflow at any version, activate (of a workflow that is
\* not archived), deactivate, archive and record_execution succeed: save
\* accepts the entity they produce and the new status or statistics are
\* stored.
C27_StatusAndExecutionSucceedAtAnyVersion ==
    (/\ log.op \in StatusOps \cup {"record_execution"}
     /\ log.before.id # 0
     /\ ~(log.op = "activate" /\ log.before.status = ARCHIVED)) =>
        /\ log.result = "ok"
        /\ db[log.before.id].status = log.entity.status
        /\ db[log.before.id].total = log.entity.total

\* C28: no two stored workflows share a name, also when requests that
\* create a workflow of one name (or rename a workflow) are interleaved; a
\* request that was answered with success stored the only workflow of its
\* name.
C28_StoredNamesAreUnique ==
    \A v \in Stored, w \in Stored : v # w => db[v].name # db[w].name

\* C29: whatever the order and the interleaving of the record_execution
\* requests that succeeded for a workflow, its total_executions is the
\* number of those requests and is successful_executions +
\* failed_executions.
C29_TotalCountsRecordedExecutions ==
    \A w \in Stored :
        /\ db[w].total = log.recorded[w]
        /\ db[w].total = db[w].successful + db[w].failed

\* C30: a run of a compiled graph in which no node suspends or raises
\* executes the End node and reaches Completed, also when a Branch routes to
\* one of several static nodes that each have an edge to End.
C30_RunExecutesEndAndCompletes ==
    (RanToTheEnd /\ BranchTargetsLeadToEnd) =>
        /\ outcome = "complete"
        /\ EndId \in ExecutedNodes

\* C31: the events of a /run/stream response are one start event, then
\* progress events only, then one terminal event (human_input_required,
\* complete or error) once the response is over; nothing is sent after the
\* terminal event, and all events carry the thread id of the request.
C31_ResponseIsStartProgressTerminal ==
    /\ [](Responding =>
            /\ events # <<>>
            /\ events[1].type = "start"
            /\ \A i \in 2..Len(events) :
                  events[i].type \in
                      IF i = Len(events) /\ phase = "done" THEN TerminalTypes ELSE {"progress"}
            /\ phase = "done" => Len(events) >= 2
            /\ \A i \in DOMAIN events : events[i].thread = call.thread)
    /\ [][(phase = "done" /\ calls' = calls) => events' = events]_vars

\* the second response, on another thread than the first, after three
\* progress events
C31_Witness ==
    /\ Responding
    /\ phase = "done"
    /\ calls = 2
    /\ call.thread = 2
    /\ outcome = "complete"
    /\ Len(events) >= 5
    /\ \E th \in Threads : th # call.thread /\ execCount[th][1] > 0

\* C32 (as claimed): HumanInLoopNode.execute returns the decision of the
\* state when the state has one; else, when the state has a human input, the
\* input's decision ('rejected' when it names none), its comment and the
\* input itself; else the interrupt marker with the prompt and no decision.
\* Only in the last case does it ask for human input.
C32_ExecuteDecisionThenInputThenInterrupt ==
    Called("hil_execute") =>
        IF DecisionKey \in DOMAIN arg.state
        THEN ret.value = (DecisionKey :> arg.state[DecisionKey])
        ELSE IF HumanInputKey \in DOMAIN arg.state
        THEN ReturnsInput(arg.state[HumanInputKey])
        ELSE ReturnsInterrupt

\* C32 (amended): as above for a human input that is a mapping; for a human
\* input that is no mapping execute returns the decision 'rejected' and an
\* error text, and neither comment nor input.
C32_ExecuteDecisionThenMappingInputThenInterrupt ==
    Called("hil_execute") =>
        IF DecisionKey \in DOMAIN arg.state
        THEN ret.value = (DecisionKey :> arg.state[DecisionKey])
        ELSE IF HumanInputKey \in DOMAIN arg.state
        THEN IF arg.state[HumanInputKey][2] = 2
             THEN /\ DOMAIN ret.value = {DecisionKey, Key(CalledNode, "error")}
                  /\ ret.value[DecisionKey] = Val("rejected")
             ELSE ReturnsInput(arg.state[HumanInputKey])
        ELSE ReturnsInterrupt

\* a state with a decision and with a human input that names another one
C32_Witness ==
    /\ Called("hil_execute")
    /\ DecisionKey \in DOMAIN arg.state
    /\ HumanInputKey \in DOMAIN arg.state
    /\ arg.state[DecisionKey] = Val("approved")
    /\ arg.state[HumanInputKey] = <<"rejected", 1>>
    /\ ~Asks

\* C33: HumanInLoopNode.get_decision always returns, and returns one of
\* 'approval', 'rejection', 'error_path': 'rejection' when the decision of
\* the state is 'rejected' or the state has none, 'error_path' for a
\* decision that is neither 'approved' nor 'rejected'.
C33_GetDecisionIsTotalOverThreeHandles ==
    Called("hil_get_decision") =>
        /\ ~ret.raised
        /\ ret.value \in {"approval", "rejection", "error_path"}
        /\ DecisionKey \notin DOMAIN arg.state => ret.value = "rejection"
        /\ DecisionKey \in DOMAIN arg.state =>
              /\ arg.state[DecisionKey] = Val("rejected") => ret.value = "rejection"
              /\ arg.state[DecisionKey] = Val("approved") => ret.value = "approval"
              /\ arg.state[DecisionKey] \notin {Val("approved"), Val("rejected")} =>
                    ret.value = "error_path"

\* a state without decision but with an approving human input
C33_Witness ==
    /\ Called("hil_get_decision")
    /\ DecisionKey \notin DOMAIN arg.state
    /\ HumanInputKey \in DOMAIN arg.state
    /\ arg.state[HumanInputKey][1] = "approved"
    /\ ret.value = "rejection"

\* C34: a state whose decision is 'approve', the value execute stores for a
\* human input that says 'approve', is mapped by get_decision to the handle
\* 'approval'.
C34_ApproveIsRoutedToApproval ==
    (Called("hil_get_decision") /\ DecisionKey \in DOMAIN arg.state
        /\ arg.state[DecisionKey] = Val("approve")) =>
        ret.value = "approval"

\* C35: BranchNode.execute returns the decision 'branch-i' for the smallest
\* index i whose condition evaluates truthy; a condition whose evaluation
\* raises counts as false, and the conditions after the first match do not
\* matter.
C35_FirstTruthyConditionDecides ==
    (Called("branch_execute") /\ \E i \in DOMAIN arg.conditions : arg.conditions[i] = "truthy") =>
        /\ ~ret.raised
        /\ DOMAIN ret.value = {DecisionKey}
        /\ \E i \in DOMAIN arg.conditions :
              /\ arg.conditions[i] = "truthy"
              /\ \A j \in 1..(i - 1) : arg.conditions[j] \in {"falsy", "raises"}
              /\ ret.value[DecisionKey] = Val(branch_handle(i - 1))

\* the first condition raises, the second and the third hold
C35_Witness ==
    /\ Called("branch_execute")
    /\ arg.conditions = <<"raises", "truthy", "truthy">>
    /\ ret.value = (DecisionKey :> Val("branch-1"))

\* C36: when no condition of a Branch node matches (also when every
\* evaluation raises) and hasElse is false, execute does not raise and
\* returns the decision 'error_path'.
C36_NoMatchWithoutElseIsErrorPath ==
    (Called("branch_execute") /\ ~arg.hasElse
        /\ \A i \in DOMAIN arg.conditions : arg.conditions[i] # "truthy") =>
        /\ ~ret.raised
        /\ ret.value = (DecisionKey :> Val("error_path"))

\* C37: when no condition of a Branch node matches and hasElse is true,
\* execute returns the decision 'else'.
C37_NoMatchWithElseIsElse ==
    (Called("branch_execute") /\ arg.hasElse
        /\ \A i \in DOMAIN arg.conditions : arg.conditions[i] # "truthy") =>
        /\ ~ret.raised
        /\ ret.value = (DecisionKey :> Val("else"))

\* C38: the routing map of a conditional node has one target for each
\* handle of its outgoing edges and no other key; an edge without handle is
\* keyed 'default'; of several edges with one handle the one listed last
\* gives the target.
C38_RoutingMapKeepsLastEdgeOfHandle ==
    Called("path_map") =>
        LET out == {i \in DOMAIN arg.edges : arg.edges[i].source = CalledNode}
            key(i) == IF arg.edges[i].source_handle = NoHandle THEN "default"
                      ELSE arg.edges[i].source_handle
        IN /\ DOMAIN ret.value = {key(i) : i \in out}
           /\ \A i \in out :
                 (\A j \in out : j > i => key(j) # key(i)) =>
                     ret.value[key(i)] = arg.edges[i].target

\* two edges without handle to different targets, an edge of another node
\* between them
C38_Witness ==
    /\ Called("path_map")
    /\ Len(arg.edges) = 3
    /\ arg.edges[1] = [source |-> CalledNode, target |-> 2, source_handle |-> NoHandle]
    /\ arg.edges[2].source # CalledNode
    /\ arg.edges[3] = [source |-> CalledNode, target |-> 1, source_handle |-> NoHandle]
    /\ ret.value = ("default" :> 1)

\* C39: state_reducer never mutates its arguments: after a call the mapping
\* passed as the current state and the update hold what they held before, and
\* the mapping returned is a new object; every key of the current state that
\* the update does not write keeps its value and no key is removed.
C39_ReducerLeavesArgumentsAndKeys ==
    (arg.of = "state_reducer" /\ ret.n >= 1) =>
        LET y == arg.updates[ret.n]
        IN /\ ret.objects.x = ret.passed
           /\ ret.objects.y = y
           /\ ret.objects.result_is_new
           /\ ~ret.raised =>
                 /\ DOMAIN ret.passed \subseteq DOMAIN ret.value
                 /\ \A k \in DOMAIN ret.passed \ Written(y) :
                       ret.value[k] = ret.passed[k]

C39_Witness ==
    /\ Reduced(2) /\ IsFlat(arg.updates[2])
    /\ ret.passed # arg.x
    /\ ret.value # ret.passed
    /\ ret.objects.x = ret.passed
    /\ DOMAIN ret.passed \ Written(arg.updates[2]) # {}
    /\ \E k \in DOMAIN ret.passed \cap Written(arg.updates[2]) :
          ret.value[k] # ret.passed[k]

\* C40: archiving is permanent: once the stored status of a workflow is
\* ARCHIVED, no later activate, deactivate, update or record_execution request
\* makes it ACTIVE again, and an activate request on an archived workflow
\* fails and leaves the stored row as it was.
C40_ArchivedIsNeverActiveAgain ==
    /\ \A w \in log.archived : db[w].status # ACTIVE
    /\ (log.op = "activate" /\ log.before.status = ARCHIVED) =>
          /\ log.result = "ValueError"
          /\ db[log.before.id].status = ARCHIVED

\* C7: whenever _topological_sort returns a list, that list holds every node id
\* exactly once and places the source of every edge strictly before its target.
C7_TopoOrderIsPermutationRespectingEdges ==
    topo.status = "ok" =>
        /\ Len(topo.order) = Len(dslNodes)
        /\ SeqToSet(topo.order) = DeclaredIds
        /\ \A p \in EdgePairs :
              PositionIn(topo.order, p[1]) < PositionIn(topo.order, p[2])

C7_Witness ==
    /\ pc = "sorted"
    /\ topo.status = "ok"
    /\ Len(dslNodes) = 3
    /\ Cardinality(EdgePairs) >= 2
    /\ dslNodes[1].id > dslNodes[2].id

\* C8 (as claimed): every graph with a directed cycle fails to compile with the
\* cycle error, no plan is produced, and the remaining-node list is exactly the
\* set of nodes never emitted (the nodes on or downstream of a cycle).
C8_CycleAlwaysCycleError ==
    (pc = "compiled" /\ HasCycle) =>
        /\ comp.status = "cycle_error"
        /\ comp.plan = NoPlan
        /\ comp.node_instances = {}
        /\ SeqToSet(comp.remaining) = OnOrAfterCycle
        /\ SeqToSet(comp.remaining) = DeclaredIds \ SeqToSet(comp.order)

\* C8 (amended): every graph with a directed cycle that passes the structure
\* checks compile() runs first (one Start, one End, every other node with an
\* inbound and an outbound edge) fails with the cycle error, no plan is produced,
\* and the remaining-node list is exactly the set of nodes never emitted.
C8_CycleErrorAfterStructureChecks ==
    (pc = "compiled" /\ HasCycle /\ PassesStructureChecks) =>
        /\ comp.status = "cycle_error"
        /\ comp.plan = NoPlan
        /\ comp.node_instances = {}
        /\ SeqToSet(comp.remaining) = OnOrAfterCycle
        /\ SeqToSet(comp.remaining) = DeclaredIds \ SeqToSet(comp.order)

C8_Witness ==
    /\ pc = "compiled"
    /\ HasCycle
    /\ PassesStructureChecks
    /\ comp.status = "cycle_error"
    /\ Len(comp.order) >= 1
    /\ Len(comp.remaining) >= 2

\* C9: a graph whose number of Start nodes or of End nodes is not exactly 1 fails
\* to compile with a structure error; no node instance exists and no plan is built.
C9_WrongStartEndCountIsStructureError ==
    (pc = "compiled" /\ (CountOfType(START) # 1 \/ CountOfType(END) # 1)) =>
        /\ comp.status = "structure_error"
        /\ comp.node_instances = {}
        /\ comp.plan = NoPlan

C9_Witness ==
    /\ pc = "compiled"
    /\ CountOfType(START) = 2
    /\ CountOfType(END) = 0
    /\ HasCycle
    /\ comp.status = "structure_error"

\* C10: the node emitted at each step is the smallest id among the nodes whose
\* in-degree is zero at that step, and two sorts of the same graph listed in
\* different orders return the same topological order.
C10_TopoOrderDeterministic ==
    /\ topo.status \in {"ok", "cycle"} =>
          \A k \in DOMAIN topo.order :
              /\ topo.order[k] \in ReadyAt(topo.order, k)
              /\ \A n \in ReadyAt(topo.order, k) : topo.order[k] <= n
    /\ pc = "resorted" =>
          /\ topo.status = prevTopo.status
          /\ topo.order = prevTopo.order

C10_Witness ==
    /\ pc = "resorted"
    /\ topo.status = "ok"
    /\ Len(topo.order) = 3
    /\ \E k \in DOMAIN topo.order : Cardinality(ReadyAt(topo.order, k)) >= 2
    /\ dslNodes[1].id > dslNodes[2].id
    /\ Len(dslEdges) >= 2

====
